---- MODULE Spec2Model ----
(***************************************************************************)
(* Pantry item and pantry category handlers of the Cribb backend.          *)
(*                                                                         *)
(* The store is a set of MongoDB collections.  The handlers call           *)
(* mongo.WithSession but never StartTransaction / WithTransaction, so each *)
(* FindOne / InsertOne / UpdateOne / DeleteOne / DeleteMany is atomic on   *)
(* its own and the operations of two requests interleave freely.  Every    *)
(* action below is one store operation together with the local             *)
(* computation that follows it up to the next store operation.  The        *)
(* lookups of the users and groups collections are folded into the first   *)
(* step of a request: no handler modelled here writes those collections.   *)
(* The category handlers (pantry category create, rename, delete) use no   *)
(* session at all; each of their operations on pantry_categories and       *)
(* pantry_items is a step.  No index of pantry_categories is declared in   *)
(* the sources, so InsertOne never reports a duplicate key.                *)
(*                                                                         *)
(* Quantities are float64 in the program; the model draws them from the    *)
(* whole numbers 0..MaxQty.  Names are sequences of characters so that     *)
(* strings.TrimSpace and the case-insensitive anchored regular expression  *)
(* of the add handler are computed, not assumed.                           *)
(***************************************************************************)
EXTENDS Integers, Sequences, FiniteSets, TLC

\* ------------------------------------------------------------------ bounds
MaxQty == 2
MaxItems == 2
MaxOps == 2
MaxSerialOps == 3
MaxNewCategories == 2

\* ------------------------------------------------------- program constants
LowStockThreshold == 1
ExpiringSoonDays == 3

StatusOK == 200
StatusCreated == 201
StatusBadRequest == 400
StatusForbidden == 403
StatusNotFound == 404
StatusConflict == 409
StatusInternalServerError == 500

\* ------------------------------------------------------------ environment
Procs == {"r1", "r2"}
ItemIds == 1..MaxItems
NoItem == 0

Users == {"u1", "u2"}
Groups == {"g1", "g2"}
UserGroup == [u \in Users |-> IF u = "u1" THEN "g1" ELSE "g2"]

NotifTypes == {"low_stock", "out_of_stock", "expiring_soon"}

\* time.Time values are whole days; Now is the time of the writes, NoExp is
\* the zero time.Time (no expiration carried).
Now == 10
NoExp == 0
ExpSoon == Now + 2

\* pantry_categories at start-up: a predefined category "a" and a custom
\* category "b" that member u1 of g1 created.  The categories created later
\* get the ids c3, c4, ...
CategoryIds == {"c1", "c2"}
NewCategoryId(k) == "c" \o ToString(k + 2)
NewCategoryIds == {NewCategoryId(k) : k \in 1..MaxNewCategories}
AllCategoryIds == CategoryIds \cup NewCategoryIds

CreatePredefinedCategory(name) ==
  [exists |-> TRUE, name |-> name, type |-> "predefined", group |-> "none",
   createdBy |-> "none", active |-> TRUE]

CreateCustomCategory(name, groupID, createdBy) ==
  [exists |-> TRUE, name |-> name, type |-> "custom", group |-> groupID,
   createdBy |-> createdBy, active |-> TRUE]

Categories ==
  [c \in CategoryIds |->
     IF c = "c1"
       THEN CreatePredefinedCategory(<<"a">>)
       ELSE CreateCustomCategory(<<"b">>, "g1", "u1")]

\* Request inputs.  Concurrent: two request goroutines of one member of g1.
\* Serial: one request goroutine, so that every request runs to its
\* response before the next starts, with members of both groups, names
\* that differ in case and surrounding space.
Concurrent ==
  [procs |-> Procs, maxOps |-> MaxOps,
   users |-> {"u1"}, groups |-> {"g1"},
   names |-> {<<"a">>}, itemRefs |-> ItemIds,
   qtys |-> 0..MaxQty, useQtys |-> 1..MaxQty,
   units |-> {"L"}, cats |-> {"c1"},
   exps |-> {NoExp, ExpSoon}]

Serial ==
  [procs |-> {"r1"}, maxOps |-> MaxSerialOps,
   users |-> Users, groups |-> {"g1"},
   names |-> {<<"a">>, <<" ", "A">>}, itemRefs |-> ItemIds,
   qtys |-> 0..MaxQty, useQtys |-> 1..MaxQty,
   units |-> {"L"}, cats |-> {"c1"},
   exps |-> {NoExp, ExpSoon}]

\* CategoryOps: two request goroutines; members of both groups create,
\* rename and delete categories while member u1 adds, updates and deletes
\* items of g1 in the categories c1 and c2.
CategoryOps ==
  [procs |-> Procs, maxOps |-> MaxOps,
   users |-> {"u1"}, groups |-> {"g1"},
   names |-> {<<"a">>}, itemRefs |-> ItemIds,
   qtys |-> {MaxQty}, useQtys |-> {1},
   units |-> {"L"}, cats |-> CategoryIds,
   exps |-> {NoExp},
   catUsers |-> Users, catTargets |-> CategoryIds,
   catNames |-> {<<"A">>, <<"B">>, <<" ", "d">>},
   listGroups |-> {"g1", "g2", "g3", ""}]

\* ------------------------------------------------------------------ state
VARIABLES
  items,      \* pantry_items: id -> document, or NoDoc
  notifs,     \* pantry_notifications: number of documents per (item, type)
  history,    \* pantry_history: sequence of entries, oldest first
  nextId,     \* next ObjectID handed out by InsertOne
  pc,         \* position of each request goroutine
  req,        \* decoded request of each goroutine
  loc,        \* local variables of each goroutine
  result,     \* last response written by each goroutine
  ops,        \* number of requests started
  left,       \* per item: quantity last written by add/update minus the
              \* amounts of the uses that reported success since then
  categories,     \* pantry_categories: id -> document, or NoDoc
  nextCategoryId, \* number of the next category InsertOne creates
  usersGroupID,   \* users: group_id of each user document, or NoGroup
  groupMembers    \* groups: members array of each group document

vars == <<items, notifs, history, nextId, pc, req, loc, result, ops, left,
          categories, nextCategoryId, usersGroupID, groupMembers>>

NoDoc == [exists |-> FALSE]

NoReq == [op |-> "none", seq |-> 0]
NoLoc == [id |-> NoItem]
NoResult == [seq |-> 0, op |-> "none", user |-> "none", item |-> NoItem, qty |-> 0,
             group |-> "none", cat |-> "none", noName |-> FALSE,
             code |-> 0, err |-> "none", reads |-> {}]

\* ---------------------------------------------------------- pure functions
IsSpace(c) == c = " "

RECURSIVE TrimLeft(_)
TrimLeft(s) ==
  IF s # <<>> /\ IsSpace(Head(s)) THEN TrimLeft(Tail(s)) ELSE s

RECURSIVE TrimRight(_)
TrimRight(s) ==
  IF s # <<>> /\ IsSpace(s[Len(s)])
    THEN TrimRight(SubSeq(s, 1, Len(s) - 1))
    ELSE s

TrimSpace(s) == TrimRight(TrimLeft(s))

FoldChar(c) == IF c = "A" THEN "a" ELSE IF c = "B" THEN "b" ELSE c

\* regexp.QuoteMeta: a metacharacter becomes an escaped literal, written
\* here as the one pattern element "\\.".
QuoteMeta(s) == [k \in 1..Len(s) |-> IF s[k] = "." THEN "\\." ELSE s[k]]

\* "^" + pattern + "$" with option "i": "." matches any character, an
\* escaped "." matches only ".", every other character of the alphabet
\* matches itself up to letter case.
RegexMatch(pattern, s) ==
  /\ Len(pattern) = Len(s)
  /\ \A k \in 1..Len(s) :
       IF pattern[k] = "\\." THEN s[k] = "."
       ELSE pattern[k] = "." \/ FoldChar(pattern[k]) = FoldChar(s[k])

IsExpiringSoon(exp, days) == exp # NoExp /\ exp > Now /\ exp <= Now + days

\* primitive.ObjectIDFromHex: every reference parses but the malformed one.
\* MissingCategoryRef parses and names no document.
MalformedRef == "zz"
MissingCategoryRef == "c0"
MalformedItemRef == 0 - 1

ParsesCategoryID(ref) == ref # MalformedRef

ParsesItemID(ref) == ref # MalformedItemRef

\* The filter without its group_id condition.
CategoryAccessible_AnyGroup(c, g) ==
  /\ c \in AllCategoryIds
  /\ categories[c].exists
  /\ categories[c].active

CategoryAccessible(c, g) ==
  /\ c \in AllCategoryIds
  /\ categories[c].exists
  /\ categories[c].active
  /\ \/ categories[c].type = "predefined"
     \/ categories[c].type = "custom" /\ categories[c].group = g

\* The error of validateCategoryID ("none" for nil) and the collections
\* it has read when it returns.
validateCategoryID(c, g) ==
  IF ~ParsesCategoryID(c) THEN "invalid category ID format"
  ELSE IF ~CategoryAccessible(c, g)
    THEN "category not found or not accessible to this group"
  ELSE "none"

validateCategoryIDReads(c) ==
  IF ParsesCategoryID(c) THEN {"pantry_categories"} ELSE {}

RequiredMessage == "Name, quantity, unit, category_id, and group name are required"

\* Line 119 (and 363): the required fields of an add or update request.
RequiredFieldMissing(name, qty, unit, g, c) ==
  name = <<>> \/ qty < 0 \/ unit = "" \/ g = "" \/ c = ""

CreatePantryItem(g, name, qty, unit, cat, exp, by) ==
  [exists |-> TRUE, group |-> g, name |-> name, quantity |-> qty,
   unit |-> unit, category |-> cat, exp |-> exp, addedBy |-> by]

HistoryEntry(item, action, delta) ==
  [item |-> item, action |-> action, delta |-> delta]

UpdatePantryHistoryForAdd(h, item, delta) ==
  Append(h, HistoryEntry(item, "add", delta))

UpdatePantryHistoryForUse(h, item, qty) ==
  Append(h, HistoryEntry(item, "use", 0 - qty))

UpdatePantryHistoryForRemove(h, item, qty) ==
  Append(h, HistoryEntry(item, "remove", qty))

InsertNotification(n, i, t) ==
  [n EXCEPT ![i] = [@ EXCEPT ![t] = @ + 1]]

DeleteNotifications(n, i, types) ==
  [n EXCEPT ![i] = [t \in NotifTypes |-> IF t \in types THEN 0 ELSE @[t]]]

\* Line 800 without the stock check: every positive amount is accepted.
HasEnough_Unchecked(have, want) == TRUE

HasEnough(have, want) == ~(have < want)

\* ------------------------------------------------------------------- init
\* The store at start-up is empty (q = 0) or holds one item that an earlier
\* add of member u1 created with quantity MaxQty (and the history record of
\* that add).
SeedItem(q) == CreatePantryItem("g1", <<"a">>, q, "L", "c1", NoExp, "u1")

InitStore(q) ==
  IF q = 0
    THEN /\ items = [i \in ItemIds |-> NoDoc]
         /\ history = <<>>
         /\ nextId = 1
         /\ left = [i \in ItemIds |-> 0]
    ELSE /\ items = [i \in ItemIds |-> IF i = 1 THEN SeedItem(q) ELSE NoDoc]
         /\ history = UpdatePantryHistoryForAdd(<<>>, 1, q)
         /\ nextId = 2
         /\ left = [i \in ItemIds |-> IF i = 1 THEN q ELSE 0]

\* users and groups at start-up: every user is a member of the group the
\* item handlers find in the user document.
NoGroup == "none"

InitMembers ==
  /\ usersGroupID = [u \in Users |-> UserGroup[u]]
  /\ groupMembers = [g \in Groups |-> {u \in Users : UserGroup[u] = g}]

InitCategories ==
  /\ categories = [c \in AllCategoryIds |->
                     IF c \in CategoryIds THEN Categories[c] ELSE NoDoc]
  /\ nextCategoryId = 1

Init ==
  /\ \E q \in {0, MaxQty} : InitStore(q)
  /\ InitCategories
  /\ notifs = [i \in ItemIds |-> [t \in NotifTypes |-> 0]]
  /\ pc = [p \in Procs |-> "idle"]
  /\ req = [p \in Procs |-> NoReq]
  /\ loc = [p \in Procs |-> NoLoc]
  /\ result = [p \in Procs |-> NoResult]
  /\ ops = 0
  /\ InitMembers

\* ---------------------------------------------------------------- helpers
\* http.Error / WriteHeader + Encode: the response ends the request.  By
\* then the handler has read at least users and pantry_items.
RequestField(r, f, none) == IF f \in DOMAIN r THEN r[f] ELSE none

Respond(p, code, err) ==
  /\ pc' = [pc EXCEPT ![p] = "idle"]
  /\ result' = [result EXCEPT ![p] =
                  [seq |-> req[p].seq, op |-> req[p].op,
                   user |-> req[p].user, item |-> loc[p].id,
                   qty |-> req[p].qty,
                   group |-> RequestField(req[p], "group", "none"),
                   cat |-> RequestField(req[p], "cat", "none"),
                   noName |-> RequestField(req[p], "name", <<"-">>) = <<>>,
                   code |-> code, err |-> err,
                   reads |-> {"users", "pantry_items"}]]
  /\ req' = [req EXCEPT ![p] = NoReq]
  /\ loc' = [loc EXCEPT ![p] = NoLoc]

\* A response written by the first step of a request; reads are the
\* collections the handler has read by then.
Reject(p, r, code, err, reads) ==
  /\ pc' = [pc EXCEPT ![p] = "idle"]
  /\ result' = [result EXCEPT ![p] =
                  [seq |-> r.seq, op |-> r.op, user |-> r.user, item |-> r.item,
                   qty |-> r.qty,
                   group |-> RequestField(r, "group", "none"),
                   cat |-> RequestField(r, "cat", "none"),
                   noName |-> RequestField(r, "name", <<"-">>) = <<>>,
                   code |-> code, err |-> err, reads |-> reads]]
  /\ UNCHANGED <<req, loc>>

Goto(p, label) ==
  /\ pc' = [pc EXCEPT ![p] = label]
  /\ UNCHANGED <<req, result>>

\* A use that read item i before an add/update write of i no longer counts
\* against the stock that write made available.
MarkStale(l, i) ==
  [q \in Procs |->
     IF pc[q] = "useWrite" /\ l[q].id = i THEN [l[q] EXCEPT !.fresh = FALSE]
     ELSE l[q]]

PendingInserts == Cardinality({q \in Procs : pc[q] = "addInsert"})

\* ------------------------------------------------- AddPantryItemHandler
\* Where the add/update closure goes after its item write: the expiration
\* notification, then the history record, then the response.
\* A history record for every write, changed quantity or not.
HistoryNeeded_Always(isNew, oldQuantity, qty) == TRUE

HistoryNeeded(isNew, oldQuantity, qty) == isNew \/ oldQuantity # qty

AfterItemWrite(r, doc, isNew, oldQuantity, prefix) ==
  IF r.exp # NoExp /\ IsExpiringSoon(doc.exp, ExpiringSoonDays)
    THEN prefix \o "Notify"
  ELSE IF HistoryNeeded(isNew, oldQuantity, r.qty) THEN prefix \o "History"
  ELSE "respond"

AfterNotify(r, isNew, oldQuantity, prefix) ==
  IF HistoryNeeded(isNew, oldQuantity, r.qty) THEN prefix \o "History"
  ELSE "respond"

\* Lines 99-212: decode, validate, group and user lookup, membership check,
\* validateCategoryID, then the FindOne of the existing row.
AddMatches(r) ==
  {i \in ItemIds :
     /\ items[i].exists
     /\ items[i].group = r.group
     /\ RegexMatch(TrimSpace(r.name), items[i].name)
     /\ items[i].category = r.cat}

AddStart(p, D) ==
  /\ pc[p] = "idle"
  /\ ops < D.maxOps
  /\ ops' = ops + 1
  /\ UNCHANGED <<categories, nextCategoryId, items, notifs, history, nextId, left, usersGroupID, groupMembers>>
  /\ \E u \in D.users, g \in D.groups, n \in D.names, q \in D.qtys,
        un \in D.units, c \in D.cats, e \in D.exps :
       LET r == [op |-> "add", seq |-> ops + 1, item |-> NoItem, user |-> u, group |-> g, name |-> n,
                 qty |-> q, unit |-> un, cat |-> c, exp |-> e]
       IN
       IF RequiredFieldMissing(n, q, un, g, c)
         THEN Reject(p, r, StatusBadRequest, RequiredMessage, {})
       ELSE IF g \notin Groups
         THEN Reject(p, r, StatusNotFound, "Group not found", {"groups"})
       ELSE IF UserGroup[u] # g
         THEN Reject(p, r, StatusForbidden, "User is not a member of this group",
                     {"groups", "users"})
       ELSE IF validateCategoryID(c, g) # "none"
         THEN Reject(p, r, StatusBadRequest, validateCategoryID(c, g),
                     {"groups", "users"} \cup validateCategoryIDReads(c))
       ELSE IF AddMatches(r) # {}
         THEN \E i \in AddMatches(r) :
                /\ pc' = [pc EXCEPT ![p] = "addUpdate"]
                /\ req' = [req EXCEPT ![p] = r]
                /\ loc' = [loc EXCEPT ![p] =
                     [id |-> i, isNew |-> FALSE,
                      oldQuantity |-> items[i].quantity,
                      doc |-> [items[i] EXCEPT
                                 !.quantity = q, !.unit = un,
                                 !.exp = IF e # NoExp THEN e ELSE @]]]
                /\ UNCHANGED result
       ELSE /\ nextId + PendingInserts <= MaxItems
            /\ pc' = [pc EXCEPT ![p] = "addInsert"]
            /\ req' = [req EXCEPT ![p] = r]
            /\ loc' = [loc EXCEPT ![p] =
                 [id |-> NoItem, isNew |-> TRUE, oldQuantity |-> 0,
                  doc |-> CreatePantryItem(g, n, q, un, c, e, u)]]
            /\ UNCHANGED result

\* Lines 231-238: UpdateOne {_id} $set pantryItem (the whole document read
\* by the FindOne, with the request's quantity, unit and expiration).
AddUpdate(p) ==
  /\ pc[p] = "addUpdate"
  /\ LET i == loc[p].id IN
     /\ IF items[i].exists
          THEN /\ items' = [items EXCEPT ![i] = loc[p].doc]
               /\ left' = [left EXCEPT ![i] = loc[p].doc.quantity]
               /\ loc' = MarkStale(loc, i)
          ELSE UNCHANGED <<items, left, loc>>
     /\ Goto(p, AfterItemWrite(req[p], loc[p].doc, FALSE, loc[p].oldQuantity, "add"))
  /\ UNCHANGED <<categories, nextCategoryId, notifs, history, nextId, ops, usersGroupID, groupMembers>>

\* Lines 241-255: InsertOne of the new document.
AddInsert(p) ==
  /\ pc[p] = "addInsert"
  /\ nextId \in ItemIds
  /\ items' = [items EXCEPT ![nextId] = loc[p].doc]
  /\ left' = [left EXCEPT ![nextId] = loc[p].doc.quantity]
  /\ nextId' = nextId + 1
  /\ loc' = [loc EXCEPT ![p] = [@ EXCEPT !.id = nextId]]
  /\ Goto(p, AfterItemWrite(req[p], loc[p].doc, TRUE, 0, "add"))
  /\ UNCHANGED <<categories, nextCategoryId, notifs, history, ops, usersGroupID, groupMembers>>

\* Lines 262-275: InsertOne of an expiring_soon notification.
AddNotify(p) ==
  /\ pc[p] = "addNotify"
  /\ notifs' = InsertNotification(notifs, loc[p].id, "expiring_soon")
  /\ Goto(p, AfterNotify(req[p], loc[p].isNew, loc[p].oldQuantity, "add"))
  /\ UNCHANGED <<categories, nextCategoryId, items, history, nextId, loc, ops, left, usersGroupID, groupMembers>>

\* Lines 286-308: the history record written after the closure returned.
AddHistory(p) ==
  /\ pc[p] = "addHistory"
  /\ history' = UpdatePantryHistoryForAdd(history, loc[p].id,
                   IF loc[p].isNew THEN req[p].qty
                   ELSE req[p].qty - loc[p].oldQuantity)
  /\ Goto(p, "respond")
  /\ UNCHANGED <<categories, nextCategoryId, items, notifs, nextId, loc, ops, left, usersGroupID, groupMembers>>

\* Lines 310-325 (and the tail of every other handler): the 200 response.
RespondOK(p) ==
  /\ pc[p] = "respond"
  /\ Respond(p, StatusOK, "none")
  /\ UNCHANGED <<categories, nextCategoryId, items, notifs, history, nextId, ops, left, usersGroupID, groupMembers>>

\* ---------------------------------------------- UpdatePantryItemHandler
\* Lines 329-463: decode, validate, group and user lookup, membership
\* check, validateCategoryID, then the FindOne of the item by id.
UpdateStart(p, D) ==
  /\ pc[p] = "idle"
  /\ ops < D.maxOps
  /\ ops' = ops + 1
  /\ UNCHANGED <<categories, nextCategoryId, items, notifs, history, nextId, left, usersGroupID, groupMembers>>
  /\ \E u \in D.users, g \in D.groups, i \in D.itemRefs, n \in D.names,
        q \in D.qtys, un \in D.units, c \in D.cats, e \in D.exps :
       LET r == [op |-> "update", seq |-> ops + 1, user |-> u, group |-> g, item |-> i,
                 name |-> n, qty |-> q, unit |-> un, cat |-> c, exp |-> e]
       IN
       IF ~ParsesItemID(i)
         THEN Reject(p, r, StatusBadRequest, "Invalid item ID format", {})
       ELSE IF RequiredFieldMissing(n, q, un, g, c)
         THEN Reject(p, r, StatusBadRequest, RequiredMessage, {})
       ELSE IF g \notin Groups
         THEN Reject(p, r, StatusNotFound, "Group not found", {"groups"})
       ELSE IF UserGroup[u] # g
         THEN Reject(p, r, StatusForbidden, "User is not a member of this group",
                     {"groups", "users"})
       ELSE IF validateCategoryID(c, g) # "none"
         THEN Reject(p, r, StatusBadRequest, validateCategoryID(c, g),
                     {"groups", "users"} \cup validateCategoryIDReads(c))
       ELSE IF ~items[i].exists
         THEN Reject(p, r, StatusBadRequest, "pantry item not found",
                     {"groups", "users", "pantry_categories", "pantry_items"})
       ELSE IF items[i].group # UserGroup[u]
         THEN Reject(p, r, StatusBadRequest, "pantry item does not belong to user's group",
                     {"groups", "users", "pantry_categories", "pantry_items"})
       ELSE /\ pc' = [pc EXCEPT ![p] = "updateWrite"]
            /\ req' = [req EXCEPT ![p] = r]
            /\ loc' = [loc EXCEPT ![p] =
                 [id |-> i, isNew |-> FALSE,
                  oldQuantity |-> items[i].quantity,
                  doc |-> [items[i] EXCEPT
                             !.name = n, !.quantity = q, !.unit = un,
                             !.category = c,
                             !.exp = IF e # NoExp THEN e ELSE @]]]
            /\ UNCHANGED result

\* Lines 477-485: UpdateOne {_id} $set pantryItem.
UpdateWrite(p) ==
  /\ pc[p] = "updateWrite"
  /\ LET i == loc[p].id IN
     /\ IF items[i].exists
          THEN /\ items' = [items EXCEPT ![i] = loc[p].doc]
               /\ left' = [left EXCEPT ![i] = loc[p].doc.quantity]
               /\ loc' = MarkStale(loc, i)
          ELSE UNCHANGED <<items, left, loc>>
     /\ Goto(p, AfterItemWrite(req[p], loc[p].doc, FALSE, loc[p].oldQuantity, "update"))
  /\ UNCHANGED <<categories, nextCategoryId, notifs, history, nextId, ops, usersGroupID, groupMembers>>

\* Lines 487-501: InsertOne of an expiring_soon notification.
UpdateNotify(p) ==
  /\ pc[p] = "updateNotify"
  /\ notifs' = InsertNotification(notifs, loc[p].id, "expiring_soon")
  /\ Goto(p, AfterNotify(req[p], FALSE, loc[p].oldQuantity, "update"))
  /\ UNCHANGED <<categories, nextCategoryId, items, history, nextId, loc, ops, left, usersGroupID, groupMembers>>

\* Lines 512-522: the history record of a changed quantity.
UpdateHistory(p) ==
  /\ pc[p] = "updateHistory"
  /\ history' = UpdatePantryHistoryForAdd(history, loc[p].id,
                   req[p].qty - loc[p].oldQuantity)
  /\ Goto(p, "respond")
  /\ UNCHANGED <<categories, nextCategoryId, items, notifs, nextId, loc, ops, left, usersGroupID, groupMembers>>

\* ------------------------------------------------- UsePantryItemHandler
NewQuantity(have, want) == have - want

AfterUseWrite(newQuantity) ==
  IF newQuantity > 0 /\ newQuantity <= LowStockThreshold THEN "useLowStock"
  ELSE IF newQuantity = 0 THEN "useDeleteLowStock"
  ELSE "useHistoryRead"

\* Lines 705-802: decode, validate, user lookup, then the FindOne of the
\* item and the checks on the document it returned.
UseStart(p, D) ==
  /\ pc[p] = "idle"
  /\ ops < D.maxOps
  /\ ops' = ops + 1
  /\ UNCHANGED <<categories, nextCategoryId, items, notifs, history, nextId, left, usersGroupID, groupMembers>>
  /\ \E u \in D.users, i \in D.itemRefs, q \in D.useQtys :
       LET r == [op |-> "use", seq |-> ops + 1, user |-> u, item |-> i, qty |-> q] IN
       IF q <= 0
         THEN Reject(p, r, StatusBadRequest,
                     "Item ID and quantity are required. Quantity must be positive.", {})
       ELSE IF ~ParsesItemID(i)
         THEN Reject(p, r, StatusBadRequest, "Invalid item ID format", {})
       ELSE IF ~items[i].exists
         THEN Reject(p, r, StatusBadRequest, "pantry item not found",
                     {"users", "pantry_items"})
       ELSE IF items[i].group # UserGroup[u]
         THEN Reject(p, r, StatusBadRequest, "pantry item does not belong to user's group",
                     {"users", "pantry_items"})
       ELSE IF ~HasEnough(items[i].quantity, q)
         THEN Reject(p, r, StatusBadRequest, "not enough quantity available",
                     {"users", "pantry_items"})
       ELSE /\ pc' = [pc EXCEPT ![p] = "useWrite"]
            /\ req' = [req EXCEPT ![p] = r]
            /\ loc' = [loc EXCEPT ![p] =
                 [id |-> i, quantity |-> items[i].quantity,
                  newQuantity |-> NewQuantity(items[i].quantity, q),
                  fresh |-> TRUE, committed |-> FALSE]]
            /\ UNCHANGED result

\* The UpdateOne of use with a $set that also clears the expiration.
UseWrite_ClearsExpiration(p) ==
  /\ pc[p] = "useWrite"
  /\ LET i == loc[p].id IN
     /\ IF items[i].exists
          THEN /\ items' = [items EXCEPT ![i] =
                             [@ EXCEPT !.quantity = loc[p].newQuantity, !.exp = NoExp]]
               /\ left' = [left EXCEPT ![i] =
                             IF loc[p].fresh THEN @ - req[p].qty ELSE @]
          ELSE UNCHANGED <<items, left>>
     /\ loc' = [loc EXCEPT ![p] = [@ EXCEPT !.committed = items[i].exists]]
  /\ Goto(p, AfterUseWrite(loc[p].newQuantity))
  /\ UNCHANGED <<categories, nextCategoryId, notifs, history, nextId, ops, usersGroupID, groupMembers>>

\* Lines 804-824: UpdateOne {_id} $set {quantity: newQuantity}.  The write
\* matches no document when the item is gone, which UpdateOne does not
\* report as an error; committed records whether the decrement was stored.
UseWrite(p) ==
  /\ pc[p] = "useWrite"
  /\ LET i == loc[p].id IN
     /\ IF items[i].exists
          THEN /\ items' = [items EXCEPT ![i] = [@ EXCEPT !.quantity = loc[p].newQuantity]]
               /\ left' = [left EXCEPT ![i] =
                             IF loc[p].fresh THEN @ - req[p].qty ELSE @]
          ELSE UNCHANGED <<items, left>>
     /\ loc' = [loc EXCEPT ![p] = [@ EXCEPT !.committed = items[i].exists]]
  /\ Goto(p, AfterUseWrite(loc[p].newQuantity))
  /\ UNCHANGED <<categories, nextCategoryId, notifs, history, nextId, ops, usersGroupID, groupMembers>>

\* Lines 826-840: InsertOne of a low_stock notification.
UseLowStock(p) ==
  /\ pc[p] = "useLowStock"
  /\ notifs' = InsertNotification(notifs, loc[p].id, "low_stock")
  /\ Goto(p, "useHistoryRead")
  /\ UNCHANGED <<categories, nextCategoryId, items, history, nextId, loc, ops, left, usersGroupID, groupMembers>>

\* Lines 842-854: DeleteMany of the item's low_stock notifications.
UseDeleteLowStock(p) ==
  /\ pc[p] = "useDeleteLowStock"
  /\ notifs' = DeleteNotifications(notifs, loc[p].id, {"low_stock"})
  /\ Goto(p, "useOutOfStock")
  /\ UNCHANGED <<categories, nextCategoryId, items, history, nextId, loc, ops, left, usersGroupID, groupMembers>>

\* Lines 856-870: InsertOne of an out_of_stock notification.
UseOutOfStock(p) ==
  /\ pc[p] = "useOutOfStock"
  /\ notifs' = InsertNotification(notifs, loc[p].id, "out_of_stock")
  /\ Goto(p, "useHistoryRead")
  /\ UNCHANGED <<categories, nextCategoryId, items, history, nextId, loc, ops, left, usersGroupID, groupMembers>>

\* Lines 881-889: the item is read again for the history record.
UseHistoryRead(p) ==
  /\ pc[p] = "useHistoryRead"
  /\ Goto(p, IF items[loc[p].id].exists THEN "useHistory" ELSE "respond")
  /\ UNCHANGED <<categories, nextCategoryId, items, notifs, history, nextId, loc, ops, left, usersGroupID, groupMembers>>

\* Lines 889-898: the use history record.
UseHistory(p) ==
  /\ pc[p] = "useHistory"
  /\ history' = UpdatePantryHistoryForUse(history, loc[p].id, req[p].qty)
  /\ Goto(p, "respond")
  /\ UNCHANGED <<categories, nextCategoryId, items, notifs, nextId, loc, ops, left, usersGroupID, groupMembers>>

\* ---------------------------------------------- DeletePantryItemHandler
\* Lines 906-971: user lookup and the FindOne that keeps the item's name,
\* quantity and group for the history record.
DeleteStart(p, D) ==
  /\ pc[p] = "idle"
  /\ ops < D.maxOps
  /\ ops' = ops + 1
  /\ \E u \in D.users, i \in D.itemRefs :
       LET r == [op |-> "delete", seq |-> ops + 1, user |-> u, item |-> i, qty |-> 0] IN
       IF ~ParsesItemID(i)
         THEN Reject(p, r, StatusBadRequest, "Invalid item ID format", {})
       ELSE /\ req' = [req EXCEPT ![p] = r]
            /\ loc' = [loc EXCEPT ![p] =
                 [id |-> i, found |-> items[i].exists,
                  itemQuantity |-> IF items[i].exists THEN items[i].quantity ELSE 0]]
            /\ pc' = [pc EXCEPT ![p] = "deleteFind"]
            /\ UNCHANGED result
  /\ UNCHANGED <<categories, nextCategoryId, items, notifs, history, nextId, left, usersGroupID, groupMembers>>

\* The FindOne inside the session without the ownership check.
DeleteFind_AnyGroup(p) ==
  /\ pc[p] = "deleteFind"
  /\ IF ~items[loc[p].id].exists
       THEN Respond(p, StatusBadRequest, "pantry item not found")
       ELSE Goto(p, "deleteItem") /\ UNCHANGED loc
  /\ UNCHANGED <<categories, nextCategoryId, items, notifs, history, nextId, ops, left, usersGroupID, groupMembers>>

\* Lines 983-1001: the FindOne inside the session and the ownership check.
DeleteFind(p) ==
  /\ pc[p] = "deleteFind"
  /\ LET i == loc[p].id IN
     IF ~items[i].exists
       THEN Respond(p, StatusBadRequest, "pantry item not found")
     ELSE IF items[i].group # UserGroup[req[p].user]
       THEN Respond(p, StatusBadRequest, "pantry item does not belong to user's group")
     ELSE Goto(p, "deleteItem") /\ UNCHANGED loc
  /\ UNCHANGED <<categories, nextCategoryId, items, notifs, history, nextId, ops, left, usersGroupID, groupMembers>>

\* Lines 1003-1010: DeleteOne {_id}.
DeleteItem(p) ==
  /\ pc[p] = "deleteItem"
  /\ items' = [items EXCEPT ![loc[p].id] = NoDoc]
  /\ Goto(p, "deleteNotifications")
  /\ UNCHANGED <<categories, nextCategoryId, notifs, history, nextId, loc, ops, left, usersGroupID, groupMembers>>

\* Lines 1012-1020: DeleteMany {item_id}.
DeleteNotificationsStep(p) ==
  /\ pc[p] = "deleteNotifications"
  /\ notifs' = DeleteNotifications(notifs, loc[p].id, NotifTypes)
  /\ Goto(p, IF loc[p].found THEN "deleteHistory" ELSE "respond")
  /\ UNCHANGED <<categories, nextCategoryId, items, history, nextId, loc, ops, left, usersGroupID, groupMembers>>

\* The remove record written after the history entries of the deleted item
\* were purged.
DeleteHistory_Purge(p) ==
  /\ pc[p] = "deleteHistory"
  /\ history' = UpdatePantryHistoryForRemove(
                   SelectSeq(history, LAMBDA e : e.item # loc[p].id),
                   loc[p].id, loc[p].itemQuantity)
  /\ Goto(p, "respond")
  /\ UNCHANGED <<categories, nextCategoryId, items, notifs, nextId, loc, ops, left, usersGroupID, groupMembers>>

\* Lines 1031-1041: the remove history record.
DeleteHistory(p) ==
  /\ pc[p] = "deleteHistory"
  /\ history' = UpdatePantryHistoryForRemove(history, loc[p].id, loc[p].itemQuantity)
  /\ Goto(p, "respond")
  /\ UNCHANGED <<categories, nextCategoryId, items, notifs, nextId, loc, ops, left, usersGroupID, groupMembers>>

\* =========================================== pantry category handlers
\* models/pantry_category.go
IsPredefined(c) == c.type = "predefined"

IsCustom(c) == c.type = "custom"

\* CanBeEditedBy without the comparison of the group ids.
CanBeEditedBy_AnyGroup(c, userID, userGroupID) ==
  IF IsPredefined(c) THEN FALSE ELSE TRUE

CanBeEditedBy(c, userID, userGroupID) ==
  IF IsPredefined(c) THEN FALSE
  ELSE c.group # "none" /\ c.group = userGroupID

\* CanBeDeletedBy that lets every category go.
CanBeDeletedBy_AnyCategory(c, userID, userGroupID) == TRUE

CanBeDeletedBy(c, userID, userGroupID) ==
  IF IsPredefined(c) THEN FALSE
  ELSE c.group # "none" /\ c.group = userGroupID

\* The existingFilter without its {"type": "predefined"} branch.
ExistingCategories_CustomOnly(categoryName, groupID, exceptId) ==
  {c \in AllCategoryIds :
     /\ c # exceptId
     /\ categories[c].exists
     /\ RegexMatch(QuoteMeta(categoryName), categories[c].name)
     /\ categories[c].active
     /\ IsCustom(categories[c]) /\ categories[c].group = groupID}

\* The existingFilter without the {"_id": {"$ne": categoryID}} of rename.
ExistingCategories_WithSelf(categoryName, groupID, exceptId) ==
  {c \in AllCategoryIds :
     /\ categories[c].exists
     /\ RegexMatch(QuoteMeta(categoryName), categories[c].name)
     /\ categories[c].active
     /\ \/ IsPredefined(categories[c])
        \/ IsCustom(categories[c]) /\ categories[c].group = groupID}

\* The existingFilter of the create and rename handlers: the active
\* categories, predefined or custom of the group, whose name matches
\* "^" + QuoteMeta(categoryName) + "$" with option "i"; exceptId is the
\* {"_id": {"$ne": categoryID}} of the rename handler ("none" for create).
ExistingCategories(categoryName, groupID, exceptId) ==
  {c \in AllCategoryIds :
     /\ c # exceptId
     /\ categories[c].exists
     /\ RegexMatch(QuoteMeta(categoryName), categories[c].name)
     /\ categories[c].active
     /\ \/ IsPredefined(categories[c])
        \/ IsCustom(categories[c]) /\ categories[c].group = groupID}

\* A count whose filter matches no item.
ItemCount_NoMatch(categoryID) == 0

\* CountDocuments {"category_id": categoryID} on pantry_items.
ItemCount(categoryID) ==
  Cardinality({i \in ItemIds : items[i].exists /\ items[i].category = categoryID})

\* The 409 text names the type of the category the FindOne returned.
ExistsMessage(c) ==
  "A " \o (IF IsCustom(c) THEN "custom" ELSE "predefined")
       \o " category with this name already exists"

CategoryResult(r, c, code, err) ==
  [seq |-> r.seq, op |-> r.op, user |-> r.user, item |-> NoItem, qty |-> 0,
   code |-> code, err |-> err, cat |-> c, name |-> r.name]

\* A response written by the first step of a category request.
CategoryReject(p, r, code, err) ==
  /\ pc' = [pc EXCEPT ![p] = "idle"]
  /\ result' = [result EXCEPT ![p] = CategoryResult(r, r.cat, code, err)]
  /\ UNCHANGED <<req, loc>>

\* A response written by a later step.
CategoryRespond(p, c, code, err) ==
  /\ pc' = [pc EXCEPT ![p] = "idle"]
  /\ result' = [result EXCEPT ![p] = CategoryResult(req[p], c, code, err)]
  /\ req' = [req EXCEPT ![p] = NoReq]
  /\ loc' = [loc EXCEPT ![p] = NoLoc]

CategoryBegin(p, r, label) ==
  /\ pc' = [pc EXCEPT ![p] = label]
  /\ req' = [req EXCEPT ![p] = r]
  /\ UNCHANGED <<loc, result>>

PendingCategoryInserts == Cardinality({q \in Procs : pc[q] = "catInsert"})

\* ------------------------------------------ CreatePantryCategoryHandler
\* Lines 218-292: decode, the name check, the user lookup and the FindOne
\* with the existingFilter.
CatCreateStart(p, D) ==
  /\ pc[p] = "idle"
  /\ ops < D.maxOps
  /\ ops' = ops + 1
  /\ UNCHANGED <<categories, nextCategoryId, items, notifs, history, nextId, left, usersGroupID, groupMembers>>
  /\ \E u \in D.catUsers, n \in D.catNames :
       LET r == [op |-> "catCreate", seq |-> ops + 1, user |-> u,
                 cat |-> "none", name |-> n, qty |-> 0]
           categoryName == TrimSpace(n)
       IN
       IF categoryName = <<>>
         THEN CategoryReject(p, r, StatusBadRequest, "Category name is required")
       ELSE IF ExistingCategories(categoryName, UserGroup[u], "none") # {}
         THEN \E c \in ExistingCategories(categoryName, UserGroup[u], "none") :
                CategoryReject(p, r, StatusConflict, ExistsMessage(categories[c]))
       ELSE /\ nextCategoryId + PendingCategoryInserts <= MaxNewCategories
            /\ CategoryBegin(p, r, "catInsert")

\* Lines 305-333: CreateCustomCategory, InsertOne and the 201 response.
CatCreateInsert(p) ==
  /\ pc[p] = "catInsert"
  /\ nextCategoryId <= MaxNewCategories
  /\ LET c == NewCategoryId(nextCategoryId) IN
     /\ categories' = [categories EXCEPT ![c] =
          CreateCustomCategory(TrimSpace(req[p].name), UserGroup[req[p].user], req[p].user)]
     /\ CategoryRespond(p, c, StatusCreated, "none")
  /\ nextCategoryId' = nextCategoryId + 1
  /\ UNCHANGED <<items, notifs, history, nextId, ops, left, usersGroupID, groupMembers>>

\* ------------------------------------------ UpdatePantryCategoryHandler
\* Lines 336-425: decode, the name check, the user lookup, the FindOne of
\* the category by id and the permission check.
CatUpdateStart(p, D) ==
  /\ pc[p] = "idle"
  /\ ops < D.maxOps
  /\ ops' = ops + 1
  /\ UNCHANGED <<categories, nextCategoryId, items, notifs, history, nextId, left, usersGroupID, groupMembers>>
  /\ \E u \in D.catUsers, c \in D.catTargets, n \in D.catNames :
       LET r == [op |-> "catUpdate", seq |-> ops + 1, user |-> u,
                 cat |-> c, name |-> n, qty |-> 0]
       IN
       IF TrimSpace(n) = <<>>
         THEN CategoryReject(p, r, StatusBadRequest, "Category name is required")
       ELSE IF ~categories[c].exists
         THEN CategoryReject(p, r, StatusNotFound, "Category not found")
       ELSE IF ~CanBeEditedBy(categories[c], u, UserGroup[u])
         THEN IF IsPredefined(categories[c])
                THEN CategoryReject(p, r, StatusForbidden, "Predefined categories cannot be edited")
                ELSE CategoryReject(p, r, StatusForbidden, "You can only edit custom categories from your group")
       ELSE CategoryBegin(p, r, "catUpdateCheck")

\* Lines 427-459: the FindOne with the existingFilter that leaves out the
\* category being renamed.
CatUpdateCheck(p) ==
  /\ pc[p] = "catUpdateCheck"
  /\ IF ExistingCategories(TrimSpace(req[p].name), UserGroup[req[p].user], req[p].cat) # {}
       THEN \E c \in ExistingCategories(TrimSpace(req[p].name), UserGroup[req[p].user], req[p].cat) :
              CategoryRespond(p, req[p].cat, StatusConflict, ExistsMessage(categories[c]))
       ELSE Goto(p, "catUpdateWrite") /\ UNCHANGED loc
  /\ UNCHANGED <<categories, nextCategoryId, items, notifs, history, nextId, ops, left, usersGroupID, groupMembers>>

\* Lines 461-472: UpdateOne {_id} $set {name}.
CatUpdateWrite(p) ==
  /\ pc[p] = "catUpdateWrite"
  /\ LET c == req[p].cat IN
     IF categories[c].exists
       THEN categories' = [categories EXCEPT ![c] = [@ EXCEPT !.name = TrimSpace(req[p].name)]]
       ELSE UNCHANGED categories
  /\ Goto(p, "catUpdateRead")
  /\ UNCHANGED <<nextCategoryId, items, notifs, history, nextId, loc, ops, left, usersGroupID, groupMembers>>

\* Lines 474-493: the FindOne of the renamed category and the response.
CatUpdateRead(p) ==
  /\ pc[p] = "catUpdateRead"
  /\ IF categories[req[p].cat].exists
       THEN CategoryRespond(p, req[p].cat, StatusOK, "none")
       ELSE CategoryRespond(p, req[p].cat, StatusInternalServerError, "Failed to fetch updated category")
  /\ UNCHANGED <<categories, nextCategoryId, items, notifs, history, nextId, ops, left, usersGroupID, groupMembers>>

\* ------------------------------------------ DeletePantryCategoryHandler
\* Lines 498-572: the user lookup, the FindOne of the category by id and
\* the permission check.
CatDeleteStart(p, D) ==
  /\ pc[p] = "idle"
  /\ ops < D.maxOps
  /\ ops' = ops + 1
  /\ UNCHANGED <<categories, nextCategoryId, items, notifs, history, nextId, left, usersGroupID, groupMembers>>
  /\ \E u \in D.catUsers, c \in D.catTargets :
       LET r == [op |-> "catDelete", seq |-> ops + 1, user |-> u,
                 cat |-> c, name |-> <<>>, qty |-> 0]
       IN
       IF ~categories[c].exists
         THEN CategoryReject(p, r, StatusNotFound, "Category not found")
       ELSE IF ~CanBeDeletedBy(categories[c], u, UserGroup[u])
         THEN IF IsPredefined(categories[c])
                THEN CategoryReject(p, r, StatusForbidden, "Predefined categories cannot be deleted")
                ELSE CategoryReject(p, r, StatusForbidden, "You can only delete custom categories from your group")
       ELSE CategoryBegin(p, r, "catDeleteCount")

\* Lines 574-589: CountDocuments of the items that carry the category id.
CatDeleteCount(p) ==
  /\ pc[p] = "catDeleteCount"
  /\ IF ItemCount(req[p].cat) > 0
       THEN CategoryRespond(p, req[p].cat, StatusConflict,
                            "Cannot delete category: it is being used by pantry items")
       ELSE Goto(p, "catDeleteOne") /\ UNCHANGED loc
  /\ UNCHANGED <<categories, nextCategoryId, items, notifs, history, nextId, ops, left, usersGroupID, groupMembers>>

\* Lines 591-612: DeleteOne {_id} and the response.
CatDeleteOne(p) ==
  /\ pc[p] = "catDeleteOne"
  /\ LET c == req[p].cat IN
     IF categories[c].exists
       THEN /\ categories' = [categories EXCEPT ![c] = NoDoc]
            /\ CategoryRespond(p, c, StatusOK, "none")
       ELSE /\ UNCHANGED categories
            /\ CategoryRespond(p, c, StatusNotFound, "Category not found or already deleted")
  /\ UNCHANGED <<nextCategoryId, items, notifs, history, nextId, ops, left, usersGroupID, groupMembers>>


\* ------------------------------------------------------------------ next
Step(p, D) ==
  \/ AddStart(p, D)
  \/ AddUpdate(p)
  \/ AddInsert(p)
  \/ AddNotify(p)
  \/ AddHistory(p)
  \/ UpdateStart(p, D)
  \/ UpdateWrite(p)
  \/ UpdateNotify(p)
  \/ UpdateHistory(p)
  \/ UseStart(p, D)
  \/ UseWrite(p)
  \/ UseLowStock(p)
  \/ UseDeleteLowStock(p)
  \/ UseOutOfStock(p)
  \/ UseHistoryRead(p)
  \/ UseHistory(p)
  \/ DeleteStart(p, D)
  \/ DeleteFind(p)
  \/ DeleteItem(p)
  \/ DeleteNotificationsStep(p)
  \/ DeleteHistory(p)
  \/ RespondOK(p)

Next == \E p \in Concurrent.procs : Step(p, Concurrent)

Spec == Init /\ [][Next]_vars

NextSerial == \E p \in Serial.procs : Step(p, Serial)

SpecSerial == Init /\ [][NextSerial]_vars

\* ------------------------------------------ GetPantryCategoriesHandler
\* The filter without its $or condition.
ListFilter_AllGroups(c, g) ==
  /\ categories[c].exists
  /\ categories[c].active

\* Lines 129-138: the filter of the Find, is_active and predefined or
\* custom of the user's group.
ListFilter(c, g) ==
  /\ categories[c].exists
  /\ categories[c].active
  /\ \/ categories[c].type = "predefined"
     \/ categories[c].type = "custom" /\ categories[c].group = g

\* Lines 169-204: the entry of the response for a category.
CategoryWithCreator(c) ==
  [id |-> c, name |-> categories[c].name, type |-> categories[c].type]

\* Lines 62-216: the group_name parameter, the user and group lookups, the
\* membership check, the Find and the response with the categories split
\* by IsPredefined.  The lists of the response are modelled as sets.
CatList(p, D) ==
  /\ pc[p] = "idle"
  /\ ops < D.maxOps
  /\ ops' = ops + 1
  /\ UNCHANGED <<categories, nextCategoryId, items, notifs, history, nextId, left, usersGroupID, groupMembers>>
  /\ UNCHANGED <<pc, req, loc>>
  /\ \E u \in D.catUsers, g \in D.listGroups :
       LET r == [op |-> "catList", seq |-> ops + 1, user |-> u,
                 cat |-> "none", name |-> <<>>, qty |-> 0]
           found == {c \in AllCategoryIds : ListFilter(c, UserGroup[u])}
           response(code, err, cs) ==
             CategoryResult(r, "none", code, err) @@
             [group |-> g,
              predefined |-> {CategoryWithCreator(c) : c \in {x \in cs : IsPredefined(categories[x])}},
              userDefined |-> {CategoryWithCreator(c) : c \in {x \in cs : ~IsPredefined(categories[x])}}]
       IN
       result' = [result EXCEPT ![p] =
         IF g = "" THEN response(StatusBadRequest, "group_name parameter is required", {})
         ELSE IF g \notin Groups THEN response(StatusNotFound, "Group not found", {})
         ELSE IF UserGroup[u] # g
           THEN response(StatusForbidden, "User is not a member of this group", {})
         ELSE response(StatusOK, "none", found)]

\* Category requests next to item requests.  The store starts empty or with
\* one item of g1 in the custom category c2; no request of CategoryOps
\* carries an expiration, so the notification steps of add and update have
\* nothing to do and are left out.
SeedItemIn(c, q) == [SeedItem(q) EXCEPT !.category = c]

InitCategoryStore(seeded) ==
  IF seeded
    THEN /\ items = [i \in ItemIds |-> IF i = 1 THEN SeedItemIn("c2", 1) ELSE NoDoc]
         /\ history = UpdatePantryHistoryForAdd(<<>>, 1, 1)
         /\ nextId = 2
         /\ left = [i \in ItemIds |-> IF i = 1 THEN 1 ELSE 0]
    ELSE InitStore(0)

InitCat ==
  /\ \E seeded \in BOOLEAN : InitCategoryStore(seeded)
  /\ InitCategories
  /\ notifs = [i \in ItemIds |-> [t \in NotifTypes |-> 0]]
  /\ pc = [p \in Procs |-> "idle"]
  /\ req = [p \in Procs |-> NoReq]
  /\ loc = [p \in Procs |-> NoLoc]
  /\ result = [p \in Procs |-> NoResult]
  /\ ops = 0
  /\ InitMembers

CatStep(p, D) ==
  \/ CatList(p, D)
  \/ CatCreateStart(p, D)
  \/ CatCreateInsert(p)
  \/ CatUpdateStart(p, D)
  \/ CatUpdateCheck(p)
  \/ CatUpdateWrite(p)
  \/ CatUpdateRead(p)
  \/ CatDeleteStart(p, D)
  \/ CatDeleteCount(p)
  \/ CatDeleteOne(p)
  \/ AddStart(p, D)
  \/ AddUpdate(p)
  \/ AddInsert(p)
  \/ AddHistory(p)
  \/ UpdateStart(p, D)
  \/ UpdateWrite(p)
  \/ UpdateHistory(p)
  \/ DeleteStart(p, D)
  \/ DeleteFind(p)
  \/ DeleteItem(p)
  \/ DeleteNotificationsStep(p)
  \/ DeleteHistory(p)
  \/ RespondOK(p)

NextCat == \E p \in CategoryOps.procs : CatStep(p, CategoryOps)

SpecCat == InitCat /\ [][NextCat]_vars

\* The same requests, one at a time.
CategoryOpsSerial ==
  [CategoryOps EXCEPT !.procs = {"r1"}, !.maxOps = MaxSerialOps]

NextCatSerial == \E p \in CategoryOpsSerial.procs : CatStep(p, CategoryOpsSerial)

SpecCatSerial == InitCat /\ [][NextCatSerial]_vars

\* ======================================================== store faults
\* A store operation may return an error.  The notification operations of
\* the item handlers log the error and go on (lines 271-274, 497-500,
\* 836-839, 850-853, 866-869, 1017-1020); the history functions are called
\* as statements, so nothing they return reaches the handler.
Faulty ==
  [procs |-> {"r1"}, maxOps |-> MaxSerialOps,
   users |-> Users, groups |-> {"g1"},
   names |-> {<<"a">>}, itemRefs |-> ItemIds,
   qtys |-> {1, MaxQty}, useQtys |-> 1..MaxQty,
   units |-> {"L"}, cats |-> {"c1"},
   exps |-> {NoExp, ExpSoon}]

\* The error text of a store operation that failed.
StoreFault == "store fault"

\* Lines 477-485, 503-510: the UpdateOne of update returns an error; the
\* closure returns it and the handler answers 400 with its text.
UpdateWriteFail(p) ==
  /\ pc[p] = "updateWrite"
  /\ Respond(p, StatusBadRequest, StoreFault)
  /\ UNCHANGED <<categories, nextCategoryId, items, notifs, history, nextId, ops, left, usersGroupID, groupMembers>>

\* The store reports the failed UpdateOne although it applied it, and the
\* handler runs the closure again.
UseWriteFail_Retry(p) ==
  /\ pc[p] = "useWrite"
  /\ items[loc[p].id].exists
  /\ loc[p].newQuantity >= req[p].qty
  /\ items' = [items EXCEPT ![loc[p].id] = [@ EXCEPT !.quantity = loc[p].newQuantity]]
  /\ loc' = [loc EXCEPT ![p] =
               [@ EXCEPT !.quantity = loc[p].newQuantity,
                         !.newQuantity = NewQuantity(loc[p].newQuantity, req[p].qty)]]
  /\ UNCHANGED <<pc, req, result>>
  /\ UNCHANGED <<categories, nextCategoryId, notifs, history, nextId, ops, left, usersGroupID, groupMembers>>

\* Lines 808-818, 875-879: the UpdateOne of use returns an error; the
\* closure returns it and the handler answers 400 with its text.  The
\* store may have applied the write before it reported the failure.
UseWriteFail(p) ==
  /\ pc[p] = "useWrite"
  /\ \E applied \in BOOLEAN :
       IF applied /\ items[loc[p].id].exists
         THEN items' = [items EXCEPT ![loc[p].id] =
                          [@ EXCEPT !.quantity = loc[p].newQuantity]]
         ELSE UNCHANGED items
  /\ Respond(p, StatusBadRequest, StoreFault)
  /\ UNCHANGED <<categories, nextCategoryId, notifs, history, nextId, ops, left, usersGroupID, groupMembers>>

\* Lines 760-766, 782-793: StartSession fails (500) or the FindOne of the
\* item returns an error other than ErrNoDocuments (400 with its text).
UseStartFail(p, D) ==
  /\ pc[p] = "idle"
  /\ ops < D.maxOps
  /\ ops' = ops + 1
  /\ UNCHANGED <<categories, nextCategoryId, items, notifs, history, nextId, left, usersGroupID, groupMembers>>
  /\ \E u \in D.users, i \in D.itemRefs, q \in D.useQtys, session \in BOOLEAN :
       LET r == [op |-> "use", seq |-> ops + 1, user |-> u, item |-> i, qty |-> q] IN
       /\ q > 0
       /\ ParsesItemID(i)
       /\ IF session
            THEN Reject(p, r, StatusInternalServerError, "Internal server error", {"users"})
            ELSE Reject(p, r, StatusBadRequest, StoreFault, {"users", "pantry_items"})

\* Lines 1003-1010, 1025-1029: the DeleteOne returns an error.
DeleteItemFail(p) ==
  /\ pc[p] = "deleteItem"
  /\ Respond(p, StatusBadRequest, StoreFault)
  /\ UNCHANGED <<categories, nextCategoryId, items, notifs, history, nextId, ops, left, usersGroupID, groupMembers>>

AddNotifyFail(p) ==
  /\ pc[p] = "addNotify"
  /\ Goto(p, AfterNotify(req[p], loc[p].isNew, loc[p].oldQuantity, "add"))
  /\ UNCHANGED <<categories, nextCategoryId, items, notifs, history, nextId, loc, ops, left, usersGroupID, groupMembers>>

UpdateNotifyFail(p) ==
  /\ pc[p] = "updateNotify"
  /\ Goto(p, AfterNotify(req[p], FALSE, loc[p].oldQuantity, "update"))
  /\ UNCHANGED <<categories, nextCategoryId, items, notifs, history, nextId, loc, ops, left, usersGroupID, groupMembers>>

UseLowStockFail(p) ==
  /\ pc[p] = "useLowStock"
  /\ Goto(p, "useHistoryRead")
  /\ UNCHANGED <<categories, nextCategoryId, items, notifs, history, nextId, loc, ops, left, usersGroupID, groupMembers>>

UseDeleteLowStockFail(p) ==
  /\ pc[p] = "useDeleteLowStock"
  /\ Goto(p, "useOutOfStock")
  /\ UNCHANGED <<categories, nextCategoryId, items, notifs, history, nextId, loc, ops, left, usersGroupID, groupMembers>>

UseOutOfStockFail(p) ==
  /\ pc[p] = "useOutOfStock"
  /\ Goto(p, "useHistoryRead")
  /\ UNCHANGED <<categories, nextCategoryId, items, notifs, history, nextId, loc, ops, left, usersGroupID, groupMembers>>

DeleteNotificationsFail(p) ==
  /\ pc[p] = "deleteNotifications"
  /\ Goto(p, IF loc[p].found THEN "deleteHistory" ELSE "respond")
  /\ UNCHANGED <<categories, nextCategoryId, items, notifs, history, nextId, loc, ops, left, usersGroupID, groupMembers>>

\* The mutation is undone and the failure reported when the history write
\* fails.
HistoryFail_Surfaced(p, label) ==
  /\ pc[p] = label
  /\ items' = [items EXCEPT ![loc[p].id] = NoDoc]
  /\ Respond(p, StatusInternalServerError, "Failed to write history")
  /\ UNCHANGED <<categories, nextCategoryId, notifs, history, nextId, ops, left, usersGroupID, groupMembers>>

\* Lines 286-308, 512-522, 889-898, 1031-1041: the history write fails; the
\* handler goes on to its response.
HistoryFail(p, label) ==
  /\ pc[p] = label
  /\ Goto(p, "respond")
  /\ UNCHANGED <<categories, nextCategoryId, items, notifs, history, nextId, loc, ops, left, usersGroupID, groupMembers>>

AddHistoryFail(p) == HistoryFail(p, "addHistory")

UpdateHistoryFail(p) == HistoryFail(p, "updateHistory")

UseHistoryFail(p) == HistoryFail(p, "useHistory")

DeleteHistoryFail(p) == HistoryFail(p, "deleteHistory")

FaultStep(p, D) ==
  \/ Step(p, D)
  \/ UpdateWriteFail(p)
  \/ UseStartFail(p, D)
  \/ UseWriteFail(p)
  \/ DeleteItemFail(p)
  \/ AddNotifyFail(p)
  \/ UpdateNotifyFail(p)
  \/ UseLowStockFail(p)
  \/ UseDeleteLowStockFail(p)
  \/ UseOutOfStockFail(p)
  \/ DeleteNotificationsFail(p)
  \/ AddHistoryFail(p)
  \/ UpdateHistoryFail(p)
  \/ UseHistoryFail(p)
  \/ DeleteHistoryFail(p)

NextFault == \E p \in Faulty.procs : FaultStep(p, Faulty)

SpecFault == Init /\ [][NextFault]_vars


\* ====================================================== request inputs
\* One request goroutine; member u1 of g1 sends well-formed and malformed
\* requests: an empty name, a negative or zero quantity, item and
\* category references that do not parse, and references to categories
\* that are missing, inactive or custom to the other group.  Every add and
\* update carries an expiration.
Inputs ==
  [procs |-> {"r1"}, maxOps |-> MaxSerialOps,
   users |-> {"u1"}, groups |-> {"g1"},
   names |-> {<<"a">>, <<>>}, itemRefs |-> ItemIds \cup {MalformedItemRef},
   qtys |-> {0 - 1, 0, MaxQty}, useQtys |-> {0, 1},
   units |-> {"L"},
   cats |-> {"c1", "c2", "c3", "c4", MalformedRef, MissingCategoryRef},
   exps |-> {ExpSoon}]

\* pantry_categories holding, besides c1 and c2, a custom category "c" of
\* g2 and a predefined category "d" with is_active false.
InputCategories ==
  [c \in AllCategoryIds |->
     IF c \in CategoryIds THEN Categories[c]
     ELSE IF c = "c3" THEN CreateCustomCategory(<<"c">>, "g2", "u2")
     ELSE IF c = "c4" THEN [CreatePredefinedCategory(<<"d">>) EXCEPT !.active = FALSE]
     ELSE NoDoc]

InitInputs ==
  /\ \E q \in {0, MaxQty} : InitStore(q)
  /\ categories = InputCategories
  /\ nextCategoryId = 3
  /\ notifs = [i \in ItemIds |-> [t \in NotifTypes |-> 0]]
  /\ pc = [p \in Procs |-> "idle"]
  /\ req = [p \in Procs |-> NoReq]
  /\ loc = [p \in Procs |-> NoLoc]
  /\ result = [p \in Procs |-> NoResult]
  /\ ops = 0
  /\ InitMembers

NextInputs == \E p \in Inputs.procs : Step(p, Inputs)

SpecInputs == InitInputs /\ [][NextInputs]_vars

\* The category requests, one at a time, over either the start-up categories
\* or a store that also holds a custom category of g2 and an inactive one.
InitCatList ==
  /\ \E seeded \in BOOLEAN : InitCategoryStore(seeded)
  /\ \/ InitCategories
     \/ categories = InputCategories /\ nextCategoryId = 3
  /\ notifs = [i \in ItemIds |-> [t \in NotifTypes |-> 0]]
  /\ pc = [p \in Procs |-> "idle"]
  /\ req = [p \in Procs |-> NoReq]
  /\ loc = [p \in Procs |-> NoLoc]
  /\ result = [p \in Procs |-> NoResult]
  /\ ops = 0
  /\ InitMembers

SpecCatList == InitCatList /\ [][NextCatSerial]_vars

\* ========================================================= two groups
\* One request goroutine; members of both groups add, update, use and
\* delete items, naming their own group or the other one and items of
\* either group.
TwoGroups ==
  [procs |-> {"r1"}, maxOps |-> MaxSerialOps,
   users |-> Users, groups |-> Groups,
   names |-> {<<"a">>}, itemRefs |-> ItemIds,
   qtys |-> {1, MaxQty}, useQtys |-> {1},
   units |-> {"L"}, cats |-> {"c1"},
   exps |-> {NoExp, ExpSoon}]

NextGroups == \E p \in TwoGroups.procs : Step(p, TwoGroups)

SpecGroups == Init /\ [][NextGroups]_vars

\* ============================================================ patterns
\* One request goroutine of member u1; the names of the requests include
\* the regular expression metacharacter ".".
Patterns ==
  [procs |-> {"r1"}, maxOps |-> MaxSerialOps,
   users |-> {"u1"}, groups |-> {"g1"},
   names |-> {<<"a">>, <<"A">>, <<".">>}, itemRefs |-> ItemIds,
   qtys |-> {1, MaxQty}, useQtys |-> {1},
   units |-> {"L"}, cats |-> {"c1"},
   exps |-> {NoExp, ExpSoon}]

NextPatterns == \E p \in Patterns.procs : Step(p, Patterns)

SpecPatterns == Init /\ [][NextPatterns]_vars

\* =============================================== GetPantryItemsHandler
\* The store compares ObjectIDs and strings byte by byte: the category ids
\* in the order they were created, the names by the codes of their
\* characters.
CategoryRank(c) ==
  CHOOSE k \in 0..(Cardinality(AllCategoryIds) + 1) : c = "c" \o ToString(k)

Alphabet == <<" ", ".", "A", "B", "a", "b", "c", "d">>

CharCode(ch) == CHOOSE k \in DOMAIN Alphabet : Alphabet[k] = ch

RECURSIVE NameLess(_, _)
NameLess(s, t) ==
  IF t = <<>> THEN FALSE
  ELSE IF s = <<>> THEN TRUE
  ELSE IF Head(s) # Head(t) THEN CharCode(Head(s)) < CharCode(Head(t))
  ELSE NameLess(Tail(s), Tail(t))

\* Lines 622-626: the sort key (category_id, name), ascending.
RowBefore(a, b) ==
  \/ CategoryRank(a.category) < CategoryRank(b.category)
  \/ a.category = b.category /\ ~NameLess(b.name, a.name)

\* The filter without its group_id condition.
ListItemsFilter_AllGroups(i, g, f) ==
  /\ items[i].exists
  /\ f # "" => items[i].category = f

\* Lines 611-620: the filter {group_id} with category_id when the request
\* carries one.
ListItemsFilter(i, g, f) ==
  /\ items[i].exists
  /\ items[i].group = g
  /\ f # "" => items[i].category = f

\* Lines 628-642: the documents of the cursor, every matching document
\* once, in the order of the sort; documents with equal keys in any order.
FindSorted(ids) ==
  {sq \in [1..Cardinality(ids) -> ids] :
     /\ \A j, k \in DOMAIN sq : j # k => sq[j] # sq[k]
     /\ \A k \in 1..(Len(sq) - 1) : RowBefore(items[sq[k]], items[sq[k + 1]])}

\* Lines 542-642: the parameters, the group and user lookups, the
\* membership check, the filter and the Find.
ItemListStart(p, D) ==
  /\ pc[p] = "idle"
  /\ ops < D.maxOps
  /\ ops' = ops + 1
  /\ UNCHANGED <<categories, nextCategoryId, items, notifs, history, nextId, left, usersGroupID, groupMembers>>
  /\ \E u \in D.users, g \in D.listGroups, f \in D.listCats :
       LET r == [op |-> "list", seq |-> ops + 1, user |-> u, item |-> NoItem,
                 qty |-> 0, group |-> g, cat |-> f]
       IN
       IF g = ""
         THEN Reject(p, r, StatusBadRequest, "Group name is required", {})
       ELSE IF g \notin Groups
         THEN Reject(p, r, StatusNotFound, "Group not found", {"groups"})
       ELSE IF UserGroup[u] # g
         THEN Reject(p, r, StatusForbidden, "User is not a member of this group",
                     {"groups", "users"})
       ELSE IF f # "" /\ ~ParsesCategoryID(f)
         THEN Reject(p, r, StatusBadRequest, "Invalid category ID format",
                     {"groups", "users"})
       ELSE \E sq \in FindSorted({i \in ItemIds : ListItemsFilter(i, g, f)}) :
              /\ pc' = [pc EXCEPT ![p] = "listRow"]
              /\ req' = [req EXCEPT ![p] = r]
              /\ loc' = [loc EXCEPT ![p] =
                   [id |-> NoItem,
                    pantryItems |-> [k \in DOMAIN sq |-> [id |-> sq[k]] @@ items[sq[k]]],
                    response |-> <<>>,
                    categoryCache |-> {},
                    userCache |-> {},
                    categoryLookups |-> <<>>,
                    userLookups |-> <<>>]]
              /\ UNCHANGED result

\* Lines 648-694: one pass of the loop.  The category and the creator are
\* taken from the caches or read with FindOne; what a FindOne returned is
\* put in the cache only when it found a document.
ItemListRow(p) ==
  /\ pc[p] = "listRow"
  /\ Len(loc[p].response) < Len(loc[p].pantryItems)
  /\ LET item == loc[p].pantryItems[Len(loc[p].response) + 1]
         c == item.category
         cachedCategory == {e \in loc[p].categoryCache : e.id = c}
         readCategory == cachedCategory = {}
         categoryFound == c \in DOMAIN categories /\ categories[c].exists
         categoryInfo ==
           IF ~readCategory THEN (CHOOSE e \in cachedCategory : TRUE).info
           ELSE IF categoryFound
             THEN [name |-> categories[c].name, type |-> categories[c].type]
           ELSE [name |-> <<>>, type |-> ""]
         by == item.addedBy
         readUser == by \notin loc[p].userCache
         userFound == by \in Users
     IN
     loc' = [loc EXCEPT ![p] =
       [@ EXCEPT
          !.response = Append(@, [id |-> item.id, name |-> item.name,
                                  group |-> item.group, category |-> c,
                                  categoryInfo |-> categoryInfo,
                                  addedByName |-> IF readUser /\ ~userFound THEN "" ELSE by]),
          !.categoryCache = IF readCategory /\ categoryFound
                              THEN @ \cup {[id |-> c, info |-> categoryInfo]} ELSE @,
          !.userCache = IF readUser /\ userFound THEN @ \cup {by} ELSE @,
          !.categoryLookups = IF readCategory THEN Append(@, c) ELSE @,
          !.userLookups = IF readUser THEN Append(@, by) ELSE @]]
  /\ UNCHANGED <<pc, req, result>>
  /\ UNCHANGED <<categories, nextCategoryId, items, notifs, history, nextId, ops, left, usersGroupID, groupMembers>>

\* Lines 696-698: the response.
ItemListRespond(p) ==
  /\ pc[p] = "listRow"
  /\ Len(loc[p].response) = Len(loc[p].pantryItems)
  /\ pc' = [pc EXCEPT ![p] = "idle"]
  /\ result' = [result EXCEPT ![p] =
       [seq |-> req[p].seq, op |-> "list", user |-> req[p].user, item |-> NoItem,
        qty |-> 0, group |-> req[p].group, cat |-> req[p].cat, noName |-> FALSE,
        code |-> StatusOK, err |-> "none",
        reads |-> {"groups", "users", "pantry_items", "pantry_categories"},
        response |-> loc[p].response,
        categoryLookups |-> loc[p].categoryLookups,
        userLookups |-> loc[p].userLookups]]
  /\ req' = [req EXCEPT ![p] = NoReq]
  /\ loc' = [loc EXCEPT ![p] = NoLoc]
  /\ UNCHANGED <<categories, nextCategoryId, items, notifs, history, nextId, ops, left, usersGroupID, groupMembers>>

\* One request goroutine; members of both groups add, update, use, delete
\* and list items of the categories c1 and c2.
Listing ==
  [procs |-> {"r1"}, maxOps |-> MaxSerialOps,
   users |-> Users, groups |-> Groups,
   names |-> {<<"a">>, <<"B">>}, itemRefs |-> ItemIds,
   qtys |-> {MaxQty}, useQtys |-> {1},
   units |-> {"L"}, cats |-> {"c1", "c2"},
   exps |-> {ExpSoon},
   listGroups |-> {"g1", "g2", "g3", ""},
   listCats |-> {"", "c1", "c2", MalformedRef}]

\* The store at the start: empty, one item, or the two items "a" and "B" of
\* g1 in the custom category c2 that was deleted while their adds were
\* between validateCategoryID and InsertOne.
InitList ==
  /\ \/ (\E q \in {0, MaxQty} : InitStore(q)) /\ InitCategories
     \/ /\ items = [i \in ItemIds |->
                      IF i = 1 THEN SeedItemIn("c2", MaxQty)
                      ELSE IF i = 2
                        THEN [SeedItemIn("c2", MaxQty) EXCEPT !.name = <<"B">>]
                      ELSE NoDoc]
        /\ history = UpdatePantryHistoryForAdd(
                       UpdatePantryHistoryForAdd(<<>>, 1, MaxQty), 2, MaxQty)
        /\ nextId = 3
        /\ left = [i \in ItemIds |-> IF i \in {1, 2} THEN MaxQty ELSE 0]
        /\ categories = [c \in AllCategoryIds |->
                           IF c = "c1" THEN Categories[c] ELSE NoDoc]
        /\ nextCategoryId = 1
  /\ notifs = [i \in ItemIds |-> [t \in NotifTypes |-> 0]]
  /\ pc = [p \in Procs |-> "idle"]
  /\ req = [p \in Procs |-> NoReq]
  /\ loc = [p \in Procs |-> NoLoc]
  /\ result = [p \in Procs |-> NoResult]
  /\ ops = 0
  /\ InitMembers

NextList ==
  \E p \in Listing.procs :
    \/ Step(p, Listing)
    \/ ItemListStart(p, Listing)
    \/ ItemListRow(p)
    \/ ItemListRespond(p)

SpecList == InitList /\ [][NextList]_vars

\* ------------------------------------------ JoinGroupHandler, LeaveGroupHandler
\* groups: the documents g1 and g2 with their group_code; users: the
\* documents u1 and u2.  The writes of one handler run in a session without
\* a transaction, one store operation per step.
GroupCode == [g \in Groups |-> IF g = "g1" THEN "k1" ELSE "k2"]

\* Lines 78-86, 101-105: the group the filter finds, by name when the
\* request carries one, else by code.
JoinGroupFind(name, code) ==
  IF name # "" THEN {g \in Groups : g = name}
  ELSE {g \in Groups : GroupCode[g] = code}

MemberResult(r, code, err, reads) ==
  [seq |-> r.seq, op |-> r.op, user |-> r.user, item |-> NoItem, qty |-> 0,
   group |-> r.group, cat |-> "none", noName |-> FALSE,
   code |-> code, err |-> err, reads |-> reads]

\* Lines 65-113: the request, the filter and the FindOne of the group.
JoinStart(p, D) ==
  /\ pc[p] = "idle"
  /\ ops < D.maxOps
  /\ ops' = ops + 1
  /\ UNCHANGED <<categories, nextCategoryId, items, notifs, history, nextId, left,
                 usersGroupID, groupMembers>>
  /\ \E u \in D.usernames, n \in D.groupNames, c \in D.groupCodes :
       LET r == [op |-> "join", seq |-> ops + 1, user |-> u, item |-> NoItem,
                 qty |-> 0, group |-> n, code |-> c]
       IN
       IF n = "" /\ c = ""
         THEN Reject(p, r, StatusBadRequest,
                     "Either group_name or groupCode is required", {})
       ELSE IF JoinGroupFind(n, c) = {}
         THEN Reject(p, r, StatusNotFound, "Group not found", {"groups"})
       ELSE \E g \in JoinGroupFind(n, c) :
              /\ pc' = [pc EXCEPT ![p] = "joinFindUser"]
              /\ req' = [req EXCEPT ![p] = r]
              /\ loc' = [loc EXCEPT ![p] = [id |-> NoItem, group |-> g]]
              /\ UNCHANGED result

\* Lines 115-129: the FindOne of the user by username.
JoinFindUser(p) ==
  /\ pc[p] = "joinFindUser"
  /\ IF req[p].user \notin Users
       THEN /\ pc' = [pc EXCEPT ![p] = "idle"]
            /\ result' = [result EXCEPT ![p] =
                 MemberResult(req[p], StatusNotFound, "User not found",
                              {"groups", "users"})]
            /\ req' = [req EXCEPT ![p] = NoReq]
            /\ loc' = [loc EXCEPT ![p] = NoLoc]
       ELSE /\ Goto(p, "joinUpdateUser")
            /\ loc' = [loc EXCEPT ![p] = [loc[p] EXCEPT !.id = NoItem] @@
                                         [user |-> req[p].user]]
  /\ UNCHANGED <<categories, nextCategoryId, items, notifs, history, nextId, ops,
                 left, usersGroupID, groupMembers>>

\* Lines 131-159: UpdateByID of the user sets group, group_id and
\* group_code to those of the group found.
JoinUpdateUser(p) ==
  /\ pc[p] = "joinUpdateUser"
  /\ usersGroupID' = [usersGroupID EXCEPT ![loc[p].user] = loc[p].group]
  /\ Goto(p, "joinUpdateGroup")
  /\ UNCHANGED <<categories, nextCategoryId, items, notifs, history, nextId, loc,
                 ops, left, groupMembers>>

\* Lines 161-203: UpdateByID of the group, $addToSet of the user id to
\* members, and the 200 response.
JoinUpdateGroup(p) ==
  /\ pc[p] = "joinUpdateGroup"
  /\ groupMembers' = [groupMembers EXCEPT ![loc[p].group] = @ \cup {loc[p].user}]
  /\ pc' = [pc EXCEPT ![p] = "idle"]
  /\ result' = [result EXCEPT ![p] =
       MemberResult(req[p], StatusOK, "none", {"groups", "users"})]
  /\ req' = [req EXCEPT ![p] = NoReq]
  /\ loc' = [loc EXCEPT ![p] = NoLoc]
  /\ UNCHANGED <<categories, nextCategoryId, items, notifs, history, nextId, ops,
                 left, usersGroupID>>

\* Lines 414-465: the request, the FindOne of the user and the check that
\* the user is in a group.  The handler answers 404 when the error text
\* contains "not found", else 500.
LeaveStart(p, D) ==
  /\ pc[p] = "idle"
  /\ ops < D.maxOps
  /\ ops' = ops + 1
  /\ UNCHANGED <<categories, nextCategoryId, items, notifs, history, nextId, left,
                 usersGroupID, groupMembers>>
  /\ \E u \in D.usernames \cup {""} :
       LET r == [op |-> "leave", seq |-> ops + 1, user |-> u, item |-> NoItem,
                 qty |-> 0, group |-> "none"]
       IN
       IF u = ""
         THEN Reject(p, r, StatusBadRequest, "username is required", {})
       ELSE IF u \notin Users
         THEN Reject(p, r, StatusNotFound, "user not found", {"users"})
       ELSE IF usersGroupID[u] = NoGroup
         THEN Reject(p, r, StatusInternalServerError, "user is not in a group",
                     {"users"})
       ELSE /\ pc' = [pc EXCEPT ![p] = "leavePull"]
            /\ req' = [req EXCEPT ![p] = r]
            /\ loc' = [loc EXCEPT ![p] =
                 [id |-> NoItem, user |-> u, group |-> usersGroupID[u]]]
            /\ UNCHANGED result

\* Lines 467-474: UpdateByID of the group of the user document read, $pull
\* of the user id from members.
LeavePull(p) ==
  /\ pc[p] = "leavePull"
  /\ groupMembers' = [groupMembers EXCEPT ![loc[p].group] = @ \ {loc[p].user}]
  /\ Goto(p, "leaveUnset")
  /\ UNCHANGED <<categories, nextCategoryId, items, notifs, history, nextId, loc,
                 ops, left, usersGroupID>>

\* Lines 476-510: UpdateByID of the user, $unset of the group fields, and
\* the response.
LeaveUnset(p) ==
  /\ pc[p] = "leaveUnset"
  /\ usersGroupID' = [usersGroupID EXCEPT ![loc[p].user] = NoGroup]
  /\ pc' = [pc EXCEPT ![p] = "idle"]
  /\ result' = [result EXCEPT ![p] =
       MemberResult(req[p], StatusOK, "none", {"groups", "users"})]
  /\ req' = [req EXCEPT ![p] = NoReq]
  /\ loc' = [loc EXCEPT ![p] = NoLoc]
  /\ UNCHANGED <<categories, nextCategoryId, items, notifs, history, nextId, ops,
                 left, groupMembers>>

\* One request goroutine: join and leave requests for the users u1 and u2
\* and an unknown username, for the groups g1 and g2 by name or by code and
\* an unknown group.
Membership ==
  [procs |-> {"r1"}, maxOps |-> MaxSerialOps,
   usernames |-> {"u1", "u2", "u9"},
   groupNames |-> {"", "g1", "g2", "g9"},
   groupCodes |-> {"", "k2"}]

\* users and groups at the start: every user is in no group or in one
\* group, and a group lists exactly the users whose group_id it is.
InitMembership ==
  /\ InitStore(0)
  /\ InitCategories
  /\ notifs = [i \in ItemIds |-> [t \in NotifTypes |-> 0]]
  /\ pc = [p \in Procs |-> "idle"]
  /\ req = [p \in Procs |-> NoReq]
  /\ loc = [p \in Procs |-> NoLoc]
  /\ result = [p \in Procs |-> NoResult]
  /\ ops = 0
  /\ \E f \in [Users -> Groups \cup {NoGroup}] :
       /\ usersGroupID = f
       /\ groupMembers = [g \in Groups |-> {u \in Users : f[u] = g}]

NextMembers ==
  \E p \in Membership.procs :
    \/ JoinStart(p, Membership)
    \/ JoinFindUser(p)
    \/ JoinUpdateUser(p)
    \/ JoinUpdateGroup(p)
    \/ LeaveStart(p, Membership)
    \/ LeavePull(p)
    \/ LeaveUnset(p)

SpecMembers == InitMembership /\ [][NextMembers]_vars

\* ================================================================ claims
LowOrOut(i) == notifs[i]["low_stock"] + notifs[i]["out_of_stock"]

Responding(p, opsSet) == pc[p] = "respond" /\ req[p].op \in opsSet

\* The rows of the (group, trimmed case-insensitive name, category) tuple.
FoldName(s) == [k \in 1..Len(s) |-> FoldChar(s[k])]

TupleRows(its, g, name, cat) ==
  {i \in ItemIds :
     /\ its[i].exists
     /\ its[i].group = g
     /\ FoldName(TrimSpace(its[i].name)) = FoldName(TrimSpace(name))
     /\ its[i].category = cat}

\* C1: two overlapping use calls on one item behave like one of their
\* serial orders: the amounts consumed by the uses that went through since
\* the last add/update write never exceed the stock that write left, and
\* the stored quantity is never negative.
C1_ConcurrentUseSerialized ==
  \A i \in ItemIds :
    items[i].exists => left[i] >= 0 /\ items[i].quantity >= 0

\* C2: across use calls on one item with no add or update in between, the
\* stored quantity never increases and never becomes negative.
C2_UseMonotone ==
  [][\A p \in Procs :
       (/\ pc[p] = "useWrite"
        /\ pc'[p] # "useWrite"
        /\ loc[p].fresh
        /\ items[loc[p].id].exists)
       => /\ items'[loc[p].id].quantity <= items[loc[p].id].quantity
          /\ items'[loc[p].id].quantity >= 0]_vars

\* C3: a use that asks for more than the stock the handler reads is
\* answered 400 "not enough quantity available" and changes neither the
\* item, nor the notifications, nor the history; a use that goes on to
\* write never asked for more than the stock it read.
C3_InsufficientRejected ==
  [][\A p \in Procs :
       /\ (/\ ops' = ops + 1
           /\ result'[p].seq = ops'
           /\ result'[p].op = "use"
           /\ items[result'[p].item].exists
           /\ items[result'[p].item].group = UserGroup[result'[p].user]
           /\ result'[p].qty > items[result'[p].item].quantity)
          => /\ result'[p].code = StatusBadRequest
             /\ result'[p].err = "not enough quantity available"
             /\ pc'[p] = "idle"
             /\ UNCHANGED <<items, notifs, history>>
       /\ (pc[p] = "idle" /\ pc'[p] = "useWrite")
          => /\ req'[p].qty <= items[req'[p].item].quantity
             /\ loc'[p].newQuantity >= 0]_vars

C3_Witness ==
  \E p \in Procs :
    /\ result[p].op = "use"
    /\ result[p].err = "not enough quantity available"
    /\ pc[p] = "idle"
    /\ items[result[p].item].exists
    /\ result[p].qty > items[result[p].item].quantity

\* C4: after an add wrote its row, the store holds exactly one row for the
\* add's (group, trimmed case-insensitive name, category) tuple and that
\* row carries the quantity of this add.
C4_AddTwiceOneRow ==
  [][\A p \in Procs :
       (pc[p] \in {"addUpdate", "addInsert"} /\ pc'[p] # pc[p])
       => LET rows == TupleRows(items', req[p].group, req[p].name, req[p].cat)
          IN /\ Cardinality(rows) = 1
             /\ \A i \in rows : items'[i].quantity = req[p].qty]_vars

\* C5: an item never has more than one notification of type low_stock or
\* out_of_stock.
C5_AtMostOneStockNotification ==
  \A i \in ItemIds : LowOrOut(i) <= 1

\* C6: when a use that left the quantity in (0, LowStockThreshold]
\* responds, the item has exactly one low_stock notification.
C6_ExactlyOneLowStock ==
  \A p \in Procs :
    (/\ Responding(p, {"use"})
     /\ loc[p].newQuantity > 0
     /\ loc[p].newQuantity <= LowStockThreshold)
    => notifs[loc[p].id]["low_stock"] = 1

\* C7: when a use that brought the quantity to 0 responds, the item has no
\* low_stock notification and exactly one out_of_stock notification.
C7_ExactlyOneOutOfStock ==
  \A p \in Procs :
    (Responding(p, {"use"}) /\ loc[p].newQuantity = 0)
    => /\ notifs[loc[p].id]["low_stock"] = 0
       /\ notifs[loc[p].id]["out_of_stock"] = 1

\* C8: when an add on an existing row, or an update, that wrote a quantity
\* above LowStockThreshold responds, the item has neither a low_stock nor
\* an out_of_stock notification.
C8_RestockRetracts ==
  \A p \in Procs :
    (/\ Responding(p, {"add", "update"})
     /\ ~loc[p].isNew
     /\ req[p].qty > LowStockThreshold)
    => LowOrOut(loc[p].id) = 0

\* C9: when an add or update responds, the notifications match the
\* quantity it wrote: out_of_stock for 0, low_stock for a quantity in
\* (0, LowStockThreshold].
C9_NotificationsFollowQuantity ==
  \A p \in Procs :
    Responding(p, {"add", "update"})
    => /\ req[p].qty = 0 => notifs[loc[p].id]["out_of_stock"] >= 1
       /\ (req[p].qty > 0 /\ req[p].qty <= LowStockThreshold)
            => notifs[loc[p].id]["low_stock"] >= 1

\* C10: when an add or update that carried an expiration inside the
\* expiring-soon window responds, the item has exactly one expiring_soon
\* notification.
C10_ExactlyOneExpiringSoon ==
  \A p \in Procs :
    (/\ Responding(p, {"add", "update"})
     /\ IsExpiringSoon(req[p].exp, ExpiringSoonDays))
    => notifs[loc[p].id]["expiring_soon"] = 1

\* ------------------------------------------------------ category claims
\* The request record a step of p starts: in the response when the first
\* step answers, in req when the request goes on.
StartedBy(p) == IF pc'[p] = "idle" THEN result'[p] ELSE req'[p]

Starts(p, op) ==
  /\ pc[p] = "idle"
  /\ ops' = ops + 1
  /\ StartedBy(p).seq = ops'
  /\ StartedBy(p).op = op

Leaves(p, label) == pc[p] = label /\ pc'[p] # label

NameKey(s) == FoldName(TrimSpace(s))

\* Category c is active and visible to group g.
VisibleTo(cats, c, g) ==
  /\ c \in AllCategoryIds
  /\ cats[c].exists
  /\ cats[c].active
  /\ cats[c].type = "predefined" \/ (cats[c].type = "custom" /\ cats[c].group = g)

\* Some category other than except, visible to g, carries the name.
Collides(cats, name, g, except) ==
  \E c \in AllCategoryIds \ {except} :
    VisibleTo(cats, c, g) /\ FoldName(cats[c].name) = NameKey(name)

Referenced(its, c) == \E i \in ItemIds : its[i].exists /\ its[i].category = c

\* C11: a delete of a custom category by a member of its group goes to the
\* reference count; while an item carries the category id the delete is
\* answered 409 and the categories stay as they are; with no such item the
\* category is removed and the answer is 200.
C11_DeleteBlockedWhileReferenced ==
  [][\A p \in Procs :
       /\ (/\ Starts(p, "catDelete")
           /\ categories[StartedBy(p).cat].exists
           /\ categories[StartedBy(p).cat].type = "custom"
           /\ categories[StartedBy(p).cat].group = UserGroup[StartedBy(p).user])
          => pc'[p] = "catDeleteCount"
       /\ Leaves(p, "catDeleteCount")
          => IF Referenced(items, req[p].cat)
               THEN /\ pc'[p] = "idle"
                    /\ result'[p].code = StatusConflict
                    /\ UNCHANGED categories
               ELSE pc'[p] = "catDeleteOne"
       /\ Leaves(p, "catDeleteOne")
          => /\ ~Referenced(items, req[p].cat)
             /\ ~categories'[req[p].cat].exists
             /\ result'[p].code = StatusOK]_vars

\* The item of the start-up store was in c2; it was deleted or moved to
\* c1, and the delete of c2 that followed went through.
C11_Witness ==
  /\ history # <<>>
  /\ history[1] = HistoryEntry(1, "add", 1)
  /\ ~Referenced(items, "c2")
  /\ result["r1"].op = "catDelete"
  /\ result["r1"].cat = "c2"
  /\ result["r1"].code = StatusOK
  /\ ~categories["c2"].exists

\* C12: the category of every stored item is an existing active category
\* that is predefined or a custom category of the item's group.
C12_ItemCategoryResolves ==
  \A i \in ItemIds :
    items[i].exists => VisibleTo(categories, items[i].category, items[i].group)

\* C13: no two active categories visible to one group have the same name
\* up to letter case.
C13_NamesUniquePerGroup ==
  \A g \in Groups : \A c, d \in AllCategoryIds :
    (c # d /\ VisibleTo(categories, c, g) /\ VisibleTo(categories, d, g))
    => FoldName(categories[c].name) # FoldName(categories[d].name)

\* C14: a create whose trimmed name equals, up to letter case, the name of
\* an active category visible to the actor's group is answered 409 and
\* adds no category; any other create adds exactly one category: custom,
\* of the actor's group, carrying the trimmed name, and is answered 201.
C14_CreateConflictOrOneCustom ==
  [][\A p \in Procs :
       /\ (Starts(p, "catCreate") /\ TrimSpace(StartedBy(p).name) # <<>>)
          => IF Collides(categories, StartedBy(p).name, UserGroup[StartedBy(p).user], "none")
               THEN /\ pc'[p] = "idle"
                    /\ result'[p].code = StatusConflict
                    /\ UNCHANGED categories
               ELSE pc'[p] = "catInsert" /\ UNCHANGED categories
       /\ Leaves(p, "catInsert")
          => /\ ~Collides(categories, req[p].name, UserGroup[req[p].user], "none")
             /\ \E c \in AllCategoryIds :
                  /\ ~categories[c].exists
                  /\ categories' = [categories EXCEPT ![c] =
                       [exists |-> TRUE, name |-> TrimSpace(req[p].name),
                        type |-> "custom", group |-> UserGroup[req[p].user],
                        createdBy |-> req[p].user, active |-> TRUE]]
             /\ result'[p].code = StatusCreated]_vars

\* A create was answered 409 because of the custom category that an
\* earlier create of the same group added.
C14_Witness ==
  /\ result["r1"].op = "catCreate"
  /\ result["r1"].code = StatusConflict
  /\ categories[NewCategoryId(1)].exists
  /\ categories[NewCategoryId(1)].type = "custom"
  /\ categories[NewCategoryId(1)].group = UserGroup[result["r1"].user]
  /\ FoldName(categories[NewCategoryId(1)].name) = NameKey(result["r1"].name)

\* C15: a rename of a predefined category, or of a custom category of
\* another group than the actor's, is answered 403 and changes no name.
C15_RenameForbidden ==
  [][\A p \in Procs :
       (/\ Starts(p, "catUpdate")
        /\ TrimSpace(StartedBy(p).name) # <<>>
        /\ categories[StartedBy(p).cat].exists
        /\ \/ categories[StartedBy(p).cat].type = "predefined"
           \/ /\ categories[StartedBy(p).cat].type = "custom"
              /\ categories[StartedBy(p).cat].group # UserGroup[StartedBy(p).user])
       => /\ pc'[p] = "idle"
          /\ result'[p].code = StatusForbidden
          /\ UNCHANGED categories]_vars

\* A member of g2 asked to rename the custom category of g1.
C15_Witness ==
  /\ result["r1"].op = "catUpdate"
  /\ result["r1"].code = StatusForbidden
  /\ result["r1"].cat = "c2"
  /\ UserGroup[result["r1"].user] # categories["c2"].group
  /\ categories["c2"] = Categories["c2"]

\* C16: a rename by a member of the owning group is answered 409, and
\* changes no name, when another active category visible to the group
\* carries the new name up to letter case; the category's own name, in any
\* letter case, is no collision: the rename goes on, writes the trimmed
\* name and is answered 200.
C16_RenameConflictExcludesSelf ==
  [][\A p \in Procs :
       /\ Leaves(p, "catUpdateCheck")
          => /\ IF Collides(categories, req[p].name, UserGroup[req[p].user], req[p].cat)
                  THEN /\ pc'[p] = "idle"
                       /\ result'[p].code = StatusConflict
                       /\ UNCHANGED categories
                  ELSE pc'[p] = "catUpdateWrite"
             /\ FoldName(categories[req[p].cat].name) = NameKey(req[p].name)
                => pc'[p] = "catUpdateWrite"
       /\ Leaves(p, "catUpdateWrite")
          => categories' = [categories EXCEPT ![req[p].cat] =
                              [@ EXCEPT !.name = TrimSpace(req[p].name)]]
       /\ Leaves(p, "catUpdateRead")
          => result'[p].code = StatusOK /\ UNCHANGED categories]_vars

\* The custom category "b" was renamed to "B".
C16_Witness ==
  /\ result["r1"].op = "catUpdate"
  /\ result["r1"].code = StatusOK
  /\ result["r1"].cat = "c2"
  /\ categories["c2"].name = <<"B">>
  /\ Categories["c2"].name = <<"b">>

\* C17: the predefined categories and their names are those of the start:
\* none is renamed, none is removed, none is added.
C17_PredefinedImmutable ==
  \A c \in AllCategoryIds :
    /\ (c \in CategoryIds /\ Categories[c].type = "predefined")
       => categories[c] = Categories[c]
    /\ (categories[c].exists /\ categories[c].type = "predefined")
       => c \in CategoryIds /\ Categories[c].type = "predefined"

\* A rename and a delete of the predefined category were both answered 403.
C17_Witness ==
  \E p, q \in Procs :
    /\ result[p].op = "catUpdate"
    /\ result[p].cat = "c1"
    /\ result[p].code = StatusForbidden
    /\ result[q].op = "catDelete"
    /\ result[q].cat = "c1"
    /\ result[q].code = StatusForbidden

\* C18: an add that created a row appends one add entry sized as its
\* quantity; an add on an existing row, and an update, append one entry
\* sized as the written quantity minus the stored one when the two differ
\* and nothing when they are equal.  No other step of an add or update
\* touches the history.
C18_HistoryDeltaRule ==
  [][\A p \in Procs :
       /\ (Leaves(p, "addUpdate") \/ Leaves(p, "updateWrite"))
          => /\ items[loc[p].id].exists
             /\ items[loc[p].id].quantity = loc[p].oldQuantity
             /\ items'[loc[p].id].quantity = req[p].qty
       /\ Leaves(p, "addInsert") => pc'[p] # "respond"
       /\ (Leaves(p, "addHistory") \/ Leaves(p, "updateHistory"))
          => /\ loc[p].isNew \/ req[p].qty # loc[p].oldQuantity
             /\ history' = Append(history,
                  [item |-> loc[p].id, action |-> "add",
                   delta |-> IF loc[p].isNew THEN req[p].qty
                             ELSE req[p].qty - loc[p].oldQuantity])
             /\ pc'[p] = "respond"
       /\ (/\ pc'[p] # pc[p]
           /\ pc[p] \in {"addUpdate", "addInsert", "addNotify",
                         "updateWrite", "updateNotify"})
          => /\ history' = history
             /\ pc'[p] = "respond"
                => ~loc[p].isNew /\ req[p].qty = loc[p].oldQuantity]_vars

\* An add on an existing row that lowered the quantity is about to answer;
\* the last history entry carries the negative difference.
C18_Witness ==
  \E p \in Procs :
    /\ Responding(p, {"add"})
    /\ ~loc[p].isNew
    /\ req[p].qty < loc[p].oldQuantity
    /\ history # <<>>
    /\ history[Len(history)] =
         HistoryEntry(loc[p].id, "add", req[p].qty - loc[p].oldQuantity)

\* C19: when a use whose decrement was stored answers, the history holds a
\* use entry of the item sized as the negative of the consumed amount.
C19_UseHistoryWritten ==
  \A p \in Procs :
    (Responding(p, {"use"}) /\ loc[p].committed)
    => \E k \in DOMAIN history :
         history[k] = HistoryEntry(loc[p].id, "use", 0 - req[p].qty)

\* C20: an item that was deleted has no notification, except while the
\* delete that removed it is between its DeleteOne and its DeleteMany.
DeleteInFlight(i) ==
  \E p \in Procs : pc[p] = "deleteNotifications" /\ loc[p].id = i

C20_NoOrphanNotifications ==
  \A i \in ItemIds :
    (i < nextId /\ ~items[i].exists /\ ~DeleteInFlight(i))
    => \A t \in NotifTypes : notifs[i][t] = 0

\* C21: the remove entry of a delete carries the quantity the item had
\* when the DeleteOne removed it: the quantity the handler read for the
\* entry when the request started is the stored one at the DeleteOne, and
\* the entry is written with it.
C21_RemoveSizedAtDeletion ==
  [][\A p \in Procs :
       /\ (Leaves(p, "deleteItem") /\ items[loc[p].id].exists /\ loc[p].found)
          => loc[p].itemQuantity = items[loc[p].id].quantity
       /\ Leaves(p, "deleteHistory")
          => history' = Append(history,
               HistoryEntry(loc[p].id, "remove", loc[p].itemQuantity))]_vars

\* C22: the steps of a use and of a delete take effect together or not at
\* all, also when a store operation fails: a use that answers after its
\* decrement was stored left the notification of the new quantity (low_stock
\* for a quantity in 1..LowStockThreshold; out_of_stock and no low_stock for
\* quantity 0), and a delete that answers after its DeleteOne left no
\* notification of the item.
C22_UnitAllOrNothing ==
  \A p \in Procs :
    /\ (Responding(p, {"use"}) /\ loc[p].committed)
       => LET n == loc[p].newQuantity
              i == loc[p].id
          IN /\ (n > 0 /\ n <= LowStockThreshold) => notifs[i]["low_stock"] >= 1
             /\ n = 0 => (notifs[i]["out_of_stock"] >= 1 /\ notifs[i]["low_stock"] = 0)
    /\ (Responding(p, {"delete"}) /\ ~items[loc[p].id].exists)
       => \A t \in NotifTypes : notifs[loc[p].id][t] = 0

\* C23: a history write that fails after the mutation of an add, update,
\* use or delete leaves items and notifications as the mutation made them
\* and is not reported: the step after the mutation, failed or not, only
\* moves the request to its response, and that response is 200.
HistoryLabels == {"addHistory", "updateHistory", "useHistory", "deleteHistory"}

C23_HistoryFailureSilent ==
  [][\A p \in Procs :
       /\ \A label \in HistoryLabels :
            Leaves(p, label)
            => /\ pc'[p] = "respond"
               /\ UNCHANGED <<items, notifs>>
       /\ Leaves(p, "respond")
          => /\ result'[p].code = StatusOK
             /\ UNCHANGED <<items, notifs, history>>]_vars

\* An add answered 200 and its item is stored although no history entry
\* was written for it.
C23_Witness ==
  \E p \in Procs :
    /\ pc[p] = "idle"
    /\ result[p].op = "add"
    /\ result[p].code = StatusOK
    /\ result[p].item \in ItemIds
    /\ items[result[p].item].exists
    /\ history = <<>>

\* C26: for an add or update that is otherwise well-formed and sent by a
\* member of its group, the category reference resolves exactly when it is
\* well-formed and names an existing active category that is predefined or
\* custom to the request's group; a reference that does not resolve is
\* answered 400 with the resolution error and the request changes no item.
ResolvesFor(cats, c, g) ==
  /\ c \in DOMAIN cats
  /\ cats[c].exists
  /\ cats[c].active
  /\ (cats[c].type = "predefined" \/ (cats[c].type = "custom" /\ cats[c].group = g))

CategoryErrors ==
  {"invalid category ID format", "category not found or not accessible to this group"}

C26_CategoryResolution ==
  [][\A p \in Procs :
       (Starts(p, "add") \/ Starts(p, "update"))
       => IF pc'[p] # "idle"
            THEN ResolvesFor(categories, req'[p].cat, req'[p].group)
            ELSE LET r == result'[p] IN
                 (/\ ~r.noName
                  /\ r.qty >= 0
                  /\ r.group = UserGroup[r.user]
                  /\ ParsesItemID(r.item))
                 => IF ResolvesFor(categories, r.cat, r.group)
                      THEN r.err \notin CategoryErrors
                      ELSE /\ r.err \in CategoryErrors
                           /\ r.code = StatusBadRequest
                           /\ UNCHANGED <<items, notifs, history>>]_vars

\* An item of g1 is stored in the custom category c2 of g1, and the last
\* request, naming the custom category c3 of g2 or the inactive category
\* c4, was refused with the resolution error.
C26_Witness ==
  /\ \E i \in ItemIds : items[i].exists /\ items[i].category = "c2"
  /\ \E p \in Procs :
       /\ pc[p] = "idle"
       /\ result[p].op \in {"add", "update"}
       /\ result[p].cat \in {"c3", "c4"}
       /\ result[p].err = "category not found or not accessible to this group"

\* C27: a request with malformed input (an empty name, a quantity that is
\* not positive, an item or category reference that does not parse) is
\* answered 400 by its first step, before any collection is read, and
\* changes nothing.
MalformedInput(op, noName, qty, item, cat) ==
  \/ op \in {"add", "update"} /\ noName
  \/ op \in {"add", "update", "use"} /\ qty <= 0
  \/ ~ParsesItemID(item)
  \/ ~ParsesCategoryID(cat)

C27_MalformedBeforeStore ==
  [][\A p \in Procs : \A op \in {"add", "update", "use", "delete"} :
       Starts(p, op)
       => IF pc'[p] # "idle"
            THEN ~MalformedInput(op, RequestField(req'[p], "name", <<"-">>) = <<>>,
                                 req'[p].qty, req'[p].item,
                                 RequestField(req'[p], "cat", "none"))
            ELSE LET r == result'[p] IN
                 MalformedInput(op, r.noName, r.qty, r.item, r.cat)
                 => /\ r.code = StatusBadRequest
                    /\ r.reads = {}
                    /\ UNCHANGED <<items, notifs, history, categories>>]_vars

\* C24: no step of a request changes an item or a notification of a group
\* other than the actor's, no item is created in another group, and a
\* request that names another group (add) or an item of another group
\* (update, use, delete) is refused.
Acts(p) ==
  \/ pc'[p] # pc[p]
  \/ pc[p] = "idle" /\ ops' = ops + 1 /\ StartedBy(p).seq = ops'

Actor(p) == IF pc[p] = "idle" THEN StartedBy(p).user ELSE req[p].user

OfOtherGroup(i, u) ==
  i \in ItemIds /\ items[i].exists /\ items[i].group # UserGroup[u]

Refused(p) == pc'[p] = "idle" /\ result'[p].code \notin {StatusOK, StatusCreated}

C24_GroupIsolation ==
  [][\A p \in Procs :
       Acts(p)
       => LET u == Actor(p) IN
          /\ \A i \in ItemIds :
               /\ OfOtherGroup(i, u)
                  => items'[i] = items[i] /\ notifs'[i] = notifs[i]
               /\ (~items[i].exists /\ items'[i].exists)
                  => items'[i].group = UserGroup[u]
          /\ (Starts(p, "add") /\ StartedBy(p).group # UserGroup[u]) => Refused(p)
          /\ ((Starts(p, "update") \/ Starts(p, "use")) /\ OfOtherGroup(StartedBy(p).item, u))
             => Refused(p)
          /\ (Leaves(p, "deleteFind") /\ OfOtherGroup(loc[p].id, u)) => Refused(p)]_vars

\* A member of one group was refused an update, use or delete of an item of
\* the other group that has a notification; the item is still stored.
C24_Witness ==
  \E p \in Procs :
    /\ pc[p] = "idle"
    /\ result[p].op \in {"update", "use", "delete"}
    /\ result[p].code = StatusBadRequest
    /\ OfOtherGroup(result[p].item, result[p].user)
    /\ \E t \in NotifTypes : notifs[result[p].item][t] >= 1

\* C25: an update, use or delete answers 404 when the item does not exist,
\* 403 when the item belongs to another group, 400 when a use exceeds the
\* stock, and 500 when a store operation fails.
C25_ErrorCodes ==
  \A p \in Procs :
    result[p].op \in {"update", "use", "delete"}
    => /\ result[p].err = "pantry item not found"
          => result[p].code = StatusNotFound
       /\ result[p].err = "pantry item does not belong to user's group"
          => result[p].code = StatusForbidden
       /\ result[p].err = "not enough quantity available"
          => result[p].code = StatusBadRequest
       /\ result[p].err = StoreFault
          => result[p].code = StatusInternalServerError

\* C28: when an update answers, every mutable field of the item (name,
\* quantity, unit, category, expiration) is the value the request carried,
\* also when the request carried no expiration.
C28_UpdateSetsAllFields ==
  \A p \in Procs :
    (Responding(p, {"update"}) /\ items[loc[p].id].exists)
    => LET d == items[loc[p].id] IN
       /\ d.name = req[p].name
       /\ d.quantity = req[p].qty
       /\ d.unit = req[p].unit
       /\ d.category = req[p].cat
       /\ d.exp = req[p].exp

\* C29: the history only grows at its end: after every step the history
\* before the step is a prefix of the history after it.
C29_HistoryAppendOnly ==
  [][/\ Len(history') >= Len(history)
     /\ SubSeq(history', 1, Len(history)) = history]_vars

\* The history holds the entry of an add followed by later entries, one of
\* them the remove entry of the item's delete.
C29_Witness ==
  /\ Len(history) >= 2
  /\ history[1].action = "add"
  /\ \E k \in 2..Len(history) :
       history[k].action = "remove" /\ history[k].item = history[1].item

\* C30: the list of categories answered to a member of group G holds, in
\* its predefined part, exactly the active predefined categories and, in
\* its custom part, exactly the active custom categories of G; no custom
\* category of another group is in either part.  A user who is not a
\* member of the named group gets no list.
ListedIds(part) == {e.id : e \in part}

ActiveOfKind(kind) ==
  {c \in DOMAIN categories :
     categories[c].exists /\ categories[c].active /\ categories[c].type = kind}

C30_ListCategoriesExact ==
  [][\A p \in Procs :
       Starts(p, "catList")
       => LET r == result'[p] IN
          IF r.group = UserGroup[r.user]
            THEN /\ r.code = StatusOK
                 /\ ListedIds(r.predefined) = ActiveOfKind("predefined")
                 /\ ListedIds(r.userDefined) =
                      {c \in ActiveOfKind("custom") : categories[c].group = r.group}
                 /\ \A e \in r.predefined \cup r.userDefined :
                      e.name = categories[e.id].name /\ e.type = categories[e.id].type
            ELSE /\ r.code # StatusOK
                 /\ r.predefined = {} /\ r.userDefined = {}]_vars

\* A member of g1 got a list with a predefined and a custom category while
\* the store also holds an active custom category of g2 and an inactive
\* category, neither of them listed.
C30_Witness ==
  \E p \in Procs :
    /\ result[p].op = "catList"
    /\ result[p].code = StatusOK
    /\ result[p].user = "u1"
    /\ result[p].predefined # {}
    /\ result[p].userDefined # {}
    /\ \E c \in DOMAIN categories :
         /\ categories[c].exists /\ categories[c].active
         /\ categories[c].type = "custom" /\ categories[c].group = "g2"
         /\ c \notin ListedIds(result[p].predefined \cup result[p].userDefined)
    /\ \E c \in DOMAIN categories :
         /\ categories[c].exists /\ ~categories[c].active
         /\ c \notin ListedIds(result[p].predefined \cup result[p].userDefined)

\* C34: no two stored items of one group have the same trimmed,
\* case-folded name and the same category.
C34_TupleUnique ==
  \A i, j \in ItemIds :
    (/\ i # j
     /\ items[i].exists /\ items[j].exists
     /\ items[i].group = items[j].group
     /\ items[i].category = items[j].category)
    => NameKey(items[i].name) # NameKey(items[j].name)

\* C36: when no request is in flight, the signed deltas of the add and use
\* entries of a stored item add up to the item's stored quantity.
RECURSIVE DeltaSum(_, _)
DeltaSum(h, i) ==
  IF h = <<>> THEN 0
  ELSE (IF Head(h).item = i THEN Head(h).delta ELSE 0) + DeltaSum(Tail(h), i)

Quiescent == \A p \in Procs : pc[p] = "idle"

C36_LedgerMatchesQuantity ==
  Quiescent
  => \A i \in ItemIds :
       items[i].exists => DeltaSum(history, i) = items[i].quantity

\* C37: every history entry belongs to a mutation that was stored: the
\* history changes only in the history step of a request whose write went
\* through, a request that is refused or whose write fails leaves the
\* history as it is, and as an item is removed at most once it has at most
\* one remove entry.
RemoveEntries(h, i) ==
  {k \in DOMAIN h : h[k].item = i /\ h[k].action = "remove"}

C37_NoPhantomEntries ==
  [][/\ history' # history
        => \E p \in Procs : \E label \in HistoryLabels : Leaves(p, label)
     /\ \A p \in Procs :
          (pc'[p] = "idle" /\ pc[p] # "respond" /\ Acts(p)) => history' = history
     /\ \A i \in ItemIds : Cardinality(RemoveEntries(history', i)) <= 1]_vars

\* C38: the write of a use changes nothing of the stored items but the
\* quantity of its item, and no step of an add, update or use changes the
\* group or the creator of a stored item.
C38_UseFrame ==
  [][\A p \in Procs :
       /\ Leaves(p, "useWrite")
          => /\ \A i \in ItemIds \ {loc[p].id} : items'[i] = items[i]
             /\ items[loc[p].id].exists
                => items' = [items EXCEPT ![loc[p].id] =
                               [@ EXCEPT !.quantity = loc[p].newQuantity]]
       /\ (Acts(p) /\ (IF pc[p] = "idle" THEN StartedBy(p).op ELSE req[p].op)
                        \in {"add", "update", "use"})
          => \A i \in ItemIds :
               (items[i].exists /\ items'[i].exists)
               => /\ items'[i].group = items[i].group
                  /\ items'[i].addedBy = items[i].addedBy]_vars

\* A use was answered 200 for an item that carries an expiration and whose
\* quantity is now below the one it started with.
C38_Witness ==
  \E p \in Procs :
    /\ pc[p] = "idle"
    /\ result[p].op = "use"
    /\ result[p].code = StatusOK
    /\ items[result[p].item].exists
    /\ items[result[p].item].exp = ExpSoon
    /\ items[result[p].item].quantity < MaxQty

\* C32: a use request writes its decrement at most once and reports a
\* store failure: the stored items change by a step of a use only when the
\* request leaves its write, a request enters its write only when it
\* starts, and a use that ends in its start or in its write without having
\* gone on to the notification steps is answered with an error status.
C32_UseAppliedAtMostOnce ==
  [][\A p \in Procs :
       /\ (req[p].op = "use" /\ (pc'[p] # pc[p] \/ loc'[p] # loc[p]) /\ items' # items)
          => /\ Leaves(p, "useWrite")
             /\ items' = [items EXCEPT ![loc[p].id] =
                            [@ EXCEPT !.quantity = loc[p].quantity - req[p].qty]]
       /\ (pc'[p] = "useWrite" /\ (pc[p] # "useWrite" \/ loc'[p] # loc[p]))
          => Starts(p, "use")
       /\ ((Starts(p, "use") \/ Leaves(p, "useWrite")) /\ pc'[p] = "idle")
          => result'[p].code \in {StatusBadRequest, StatusInternalServerError}]_vars

\* The UpdateOne of a use failed after the store had applied it: the use was
\* answered 400 with the store's error and the item carries the decrement
\* of that one attempt.
C32_Witness ==
  \E p \in Procs :
    /\ pc[p] = "idle"
    /\ result[p].op = "use"
    /\ result[p].err = StoreFault
    /\ result[p].item \in ItemIds
    /\ items[result[p].item].exists
    /\ items[result[p].item].quantity = MaxQty - result[p].qty
    /\ history = UpdatePantryHistoryForAdd(<<>>, result[p].item, MaxQty)

\* C35: the UpdateOne of an add overwrites only a row whose stored name is
\* the requested name up to letter case and surrounding space.
C35_AddOverwritesSameName ==
  [][\A p \in Procs :
       (Leaves(p, "addUpdate") /\ items' # items)
       => NameKey(items[loc[p].id].name) = NameKey(req[p].name)]_vars

\* C31: the Find of a list request by a member of group G returns every
\* stored item of G (of the filtered category when the request names one)
\* exactly once, as stored, ordered by category and then by name, and no
\* item of another group; the response carries these rows in that order.
\* A user who is not a member of the named group gets no list.
ListedItems(g, f) ==
  {i \in ItemIds :
     items[i].exists /\ items[i].group = g /\ (f = "" \/ items[i].category = f)}

C31_ListItemsExact ==
  [][\A p \in Procs :
       /\ (Starts(p, "list") /\ pc'[p] = "listRow")
          => LET rows == loc'[p].pantryItems
                 g == req'[p].group
             IN /\ g = UserGroup[req'[p].user]
                /\ {rows[k].id : k \in DOMAIN rows} = ListedItems(g, req'[p].cat)
                /\ Len(rows) = Cardinality(ListedItems(g, req'[p].cat))
                /\ \A k \in DOMAIN rows :
                     /\ rows[k].group = g
                     /\ rows[k].name = items[rows[k].id].name
                     /\ rows[k].category = items[rows[k].id].category
                /\ \A k \in 1..(Len(rows) - 1) : RowBefore(rows[k], rows[k + 1])
       /\ (Starts(p, "list") /\ StartedBy(p).group # UserGroup[StartedBy(p).user])
          => Refused(p)
       /\ (Leaves(p, "listRow") /\ req[p].op = "list")
          => /\ result'[p].code = StatusOK
             /\ Len(result'[p].response) = Len(loc[p].pantryItems)
             /\ \A k \in DOMAIN loc[p].pantryItems :
                  /\ result'[p].response[k].id = loc[p].pantryItems[k].id
                  /\ result'[p].response[k].name = loc[p].pantryItems[k].name]_vars

\* A member of g1 got a list of two items in the order of the sort.
C31_Witness ==
  \E p \in Procs :
    /\ result[p].op = "list"
    /\ result[p].code = StatusOK
    /\ Len(result[p].response) = 2
    /\ result[p].response[1].id # result[p].response[2].id
    /\ \/ CategoryRank(result[p].response[1].category)
            < CategoryRank(result[p].response[2].category)
       \/ NameLess(result[p].response[1].name, result[p].response[2].name)

\* C33: in the response of one list request no category id and no creator
\* id was read from the store more than once, and the rows of one category
\* carry the same category information.
Occurrences(sq, x) == Cardinality({k \in DOMAIN sq : sq[k] = x})

C33_LookupsMemoized ==
  \A p \in Procs :
    (result[p].op = "list" /\ result[p].code = StatusOK)
    => /\ \A k \in DOMAIN result[p].categoryLookups :
            Occurrences(result[p].categoryLookups, result[p].categoryLookups[k]) = 1
       /\ \A k \in DOMAIN result[p].userLookups :
            Occurrences(result[p].userLookups, result[p].userLookups[k]) = 1
       /\ \A j, k \in DOMAIN result[p].response :
            result[p].response[j].category = result[p].response[k].category
            => result[p].response[j].categoryInfo = result[p].response[k].categoryInfo

\* C39: when no join or leave request is in progress, the group_id of a
\* user is g exactly when the members of g list the user; a user who joined
\* a second group is not listed in the first.
C39_MembershipConsistent ==
  Quiescent
  => \A u \in Users, g \in Groups :
       (usersGroupID[u] = g) <=> (u \in groupMembers[g])

====
